---- MODULE Spec2Model ----
(***************************************************************************)
(* Credential & session manager of Maroba-API (AuthService, the protect    *)
(* middleware and the CacheService it uses), as a state machine over the   *)
(* record store (users, refreshTokens), the key/value store (redis), the   *)
(* clock, the messages sent and the token pairs handed to clients.         *)
(*                                                                         *)
(* The repository holds two revisions of the service: the one under        *)
(* src/src (logout only verifies the token) and the one that blacklists    *)
(* the jti in Redis (unnamed/part_001, part_002, part_011).  The variable  *)
(* build says which revision is deployed; it never changes.                *)
(***************************************************************************)
EXTENDS Integers, Sequences, FiniteSets, TLC

VARIABLES
  build,          \* "src" or "redis": the deployed revision
  env,            \* process.env as read when the module is loaded
  now,            \* Date.now(), in milliseconds
  ticks,          \* number of clock advances so far (bounds the run)
  redisOpen,      \* redisClient.isOpen
  users,          \* prisma.user: sequence of User rows, id = index
  refreshTokens,  \* prisma.refreshToken: set of RefreshToken rows
  redis,          \* key/value store: set of [key, expireAt]
  outbox,         \* messages handed to the notification service
  issued,         \* the token pairs returned to clients
  nextRaw,        \* source of crypto.randomBytes values
  nextJti,        \* source of crypto.randomUUID values
  inflight,       \* login requests suspended at an await
  loggedOut,      \* refresh tokens for which logout reported success
  consumed,       \* raw tokens a verifyEmail / resetPassword has accepted
  faults,         \* the calls that currently throw: mail delivery, token issue, transaction
  log,            \* the minted raw tokens that were written into a log line
  resp            \* the response to the last completed request

vars == << build, env, now, ticks, redisOpen, users, refreshTokens, redis, outbox,
           issued, nextRaw, nextJti, inflight, loggedOut, consumed, faults, log,
           resp >>

----------------------------------------------------------------------------
(* Bounds of the model *)

MaxTicks == 1
MaxDays == 9
MaxRaw == 3
MaxJti == 2
MaxAttempts == 5
MaxInflight == 2

Emails == {"a@x.com"}
Usernames == {"alice"}
Passwords == {"Secret123!", "Other456!"}

----------------------------------------------------------------------------
(* Values *)

NULL == << >>
Some(v) == << v >>
getTime(d) == d[1]

Builds == {"src", "redis"}

\* UserRole.USER
RoleUser == "USER"

\* The clock advances by one of these amounts (ms).
Deltas == {15 * 60 * 1000, 24 * 60 * 60 * 1000, 7 * 24 * 60 * 60 * 1000}

\* The same, and an advance that ends half a minute before a 15-minute lock does.
FineDeltas == Deltas \cup {14 * 60 * 1000 + 30 * 1000}

\* the environment when neither variable is set: the defaults '1h' and '7d'
DefaultEnv ==
  [ JWT_EXPIRES_IN |-> << "1", "h" >>, REFRESH_TOKEN_EXPIRY |-> << "7", "d" >> ]

\* process.env.JWT_EXPIRES_IN || '1h', process.env.REFRESH_TOKEN_EXPIRY || '7d'
JWT_EXPIRES_IN == env.JWT_EXPIRES_IN
REFRESH_TOKEN_EXPIRY == env.REFRESH_TOKEN_EXPIRY

----------------------------------------------------------------------------
(* Pure functions *)

Digits == {"0", "1", "2", "3", "4", "5", "6", "7", "8", "9"}

DigitVal(c) ==
  CASE c = "0" -> 0 [] c = "1" -> 1 [] c = "2" -> 2 [] c = "3" -> 3
    [] c = "4" -> 4 [] c = "5" -> 5 [] c = "6" -> 6 [] c = "7" -> 7
    [] c = "8" -> 8 [] c = "9" -> 9

RECURSIVE parseInt(_)
parseInt(ds) ==
  IF ds = << >> THEN 0
  ELSE parseInt(SubSeq(ds, 1, Len(ds) - 1)) * 10 + DigitVal(ds[Len(ds)])

units(u) ==
  CASE u = "s" -> 1000
    [] u = "m" -> 60 * 1000
    [] u = "h" -> 60 * 60 * 1000
    [] u = "d" -> 24 * 60 * 60 * 1000

\* expiration.match(/^(\d+)([smhd])$/)
expirationMatches(e) ==
  /\ Len(e) >= 2
  /\ \A i \in 1..(Len(e) - 1) : e[i] \in Digits
  /\ e[Len(e)] \in {"s", "m", "h", "d"}

\* parseExpiration: the number of milliseconds; NULL stands for the throw.
parseExpiration(e) ==
  IF ~expirationMatches(e) THEN NULL
  ELSE Some(parseInt(SubSeq(e, 1, Len(e) - 1)) * units(e[Len(e)]))

\* a plaintext string as a column value: no prefix, the characters themselves
plaintext(pw) == << "", pw >>

\* bcrypt.hash(password, 12) and bcrypt.compare(candidate, hash)
bcryptHash(pw) == << "$2a$12$", pw >>
bcryptCompare(candidate, hash) == hash = bcryptHash(candidate)

\* the raw value is kept as it is
sha256_identity(raw) == raw

\* crypto.createHash('sha256').update(raw).digest('hex')
sha256(raw) == << "sha256", raw >>

\* jwt.sign(payload, secret, { expiresIn }): a number is a count of seconds.
jwtSign(userId, role, jti, secret, expiresIn, t) ==
  [ secret |-> secret, userId |-> userId, role |-> role, jti |-> jti,
    iat |-> t \div 1000, exp |-> (t \div 1000) + expiresIn ]

\* jwt.verify(token, secret): signature, then expiry against the clock.
jwtVerify(token, secret, t) ==
  /\ token.secret = secret
  /\ (t \div 1000) < token.exp

\* the lock starts one failure late
calculateLockDuration_lateLock(attempts, t) ==
  IF attempts >= 5 THEN Some(t + 24 * 60 * 60 * 1000)
  ELSE IF attempts > 3 THEN Some(t + 15 * 60 * 1000)
  ELSE NULL

calculateLockDuration(attempts, t) ==
  IF attempts >= 5 THEN Some(t + 24 * 60 * 60 * 1000)
  ELSE IF attempts >= 3 THEN Some(t + 15 * 60 * 1000)
  ELSE NULL

----------------------------------------------------------------------------
(* Record store and key/value store *)

UserIds == 1..Len(users)

\* the two conditions are joined by AND
findByIdentifier_bothMatch(us, email, username) ==
  LET hits == { i \in 1..Len(us) : us[i].email = email /\ us[i].username = username }
  IN IF hits = {} THEN 0 ELSE CHOOSE i \in hits : \A j \in hits : i <= j

\* a filter that matches nothing falls through to the first row
findByIdentifier_firstRow(us, email, username) ==
  LET hits == { i \in 1..Len(us) : us[i].email = email \/ us[i].username = username }
  IN IF hits = {} THEN (IF us = << >> THEN 0 ELSE 1)
     ELSE CHOOSE i \in hits : \A j \in hits : i <= j

\* prisma.user.findFirst({ where: { OR: [{ email }, { username }] } })
findByIdentifier(us, email, username) ==
  LET hits == { i \in 1..Len(us) : us[i].email = email \/ us[i].username = username }
  IN IF hits = {} THEN 0 ELSE CHOOSE i \in hits : \A j \in hits : i <= j

\* prisma.user.findUnique({ where: { email } })
findByEmail(us, email) ==
  LET hits == { i \in 1..Len(us) : us[i].email = email }
  IN IF hits = {} THEN 0 ELSE CHOOSE i \in hits : \A j \in hits : i <= j

\* the expiry is compared with gte
findByVerificationToken_inclusive(us, hashed, t) ==
  LET hits == { i \in 1..Len(us) :
                  /\ us[i].verificationToken = hashed
                  /\ us[i].verificationTokenExpires # NULL
                  /\ getTime(us[i].verificationTokenExpires) >= t }
  IN IF hits = {} THEN 0 ELSE CHOOSE i \in hits : \A j \in hits : i <= j

\* prisma.user.findFirst({ where: { verificationToken, verificationTokenExpires: { gt } } })
findByVerificationToken(us, hashed, t) ==
  LET hits == { i \in 1..Len(us) :
                  /\ us[i].verificationToken = hashed
                  /\ us[i].verificationTokenExpires # NULL
                  /\ getTime(us[i].verificationTokenExpires) > t }
  IN IF hits = {} THEN 0 ELSE CHOOSE i \in hits : \A j \in hits : i <= j

\* prisma.user.findFirst({ where: { resetPasswordToken, resetPasswordExpire: { gt } } })
findByResetToken(us, hashed, t) ==
  LET hits == { i \in 1..Len(us) :
                  /\ us[i].resetPasswordToken = hashed
                  /\ us[i].resetPasswordExpire # NULL
                  /\ getTime(us[i].resetPasswordExpire) > t }
  IN IF hits = {} THEN 0 ELSE CHOOSE i \in hits : \A j \in hits : i <= j

\* CacheService.exists(key)
cacheExists(key) ==
  /\ redisOpen
  /\ \E e \in redis : e.key = key /\ now < e.expireAt

\* CacheService.set(key, 'true', ttl): the store after the call (ttl in seconds)
cacheSet(key, ttl) ==
  IF ~redisOpen THEN redis
  ELSE { e \in redis : e.key # key } \cup { [ key |-> key, expireAt |-> now + ttl * 1000 ] }

\* CacheService.delete(key): the store after the call
cacheDelete(key) ==
  IF ~redisOpen THEN redis ELSE { e \in redis : e.key # key }

\* `blacklist:${decoded.jti}`
blacklistKey(jti) == << "blacklist", jti >>

\* `user:${userId}:tokens`
userTokensKey(userId) == << "user", userId, "tokens" >>

\* the values crypto.randomBytes(32).toString('hex') has returned so far
Minted == { Some(n) : n \in 1..(nextRaw - 1) }

----------------------------------------------------------------------------
(* Service helpers *)

\* new User row, with the schema's defaults
newUser(id, email, username, password) ==
  [ id |-> id, email |-> email, username |-> username, password |-> password,
    role |-> RoleUser, isVerified |-> FALSE,
    verificationToken |-> NULL, verificationTokenExpires |-> NULL,
    resetPasswordToken |-> NULL, resetPasswordExpire |-> NULL,
    failedLoginAttempts |-> 0, accountLockedUntil |-> NULL,
    googleId |-> NULL, isGoogleUser |-> FALSE ]

AppError(status, message) == [ status |-> status, message |-> message, minutes |-> 0 ]

\* Math.ceil((accountLockedUntil - Date.now()) / 1000 / 60)
timeLeft(until, t) == ((until - t) + (60 * 1000 - 1)) \div (60 * 1000)

\* the verification state is tested before the lock
validateLoginAttempt_verifiedFirst(user, t) ==
  IF user = NULL THEN Some(AppError(401, "Invalid credentials"))
  ELSE IF ~user.isVerified THEN Some(AppError(403, "Please verify your email first"))
  ELSE IF user.accountLockedUntil # NULL /\ getTime(user.accountLockedUntil) > t
    THEN Some([ status |-> 403, message |-> "Account temporarily locked",
                minutes |-> timeLeft(getTime(user.accountLockedUntil), t) ])
  ELSE NULL

\* validateLoginAttempt(user, ip): the error thrown, NULL when none
validateLoginAttempt(user, t) ==
  IF user = NULL THEN Some(AppError(401, "Invalid credentials"))
  ELSE IF user.accountLockedUntil # NULL /\ getTime(user.accountLockedUntil) > t
    THEN Some([ status |-> 403, message |-> "Account temporarily locked",
                minutes |-> timeLeft(getTime(user.accountLockedUntil), t) ])
  ELSE IF ~user.isVerified THEN Some(AppError(403, "Please verify your email first"))
  ELSE NULL

\* the comparison's result is not looked at
verifyPassword_anyPassword(hashedPassword, candidatePassword) == NULL

\* verifyPassword(hashedPassword, candidatePassword): the error thrown, NULL when none
verifyPassword(hashedPassword, candidatePassword) ==
  IF bcryptCompare(candidatePassword, hashedPassword) THEN NULL
  ELSE Some(AppError(401, "Invalid credentials"))

\* the first two statements of login's try block
loginChecks(user, password, t) ==
  IF validateLoginAttempt(user, t) # NULL THEN validateLoginAttempt(user, t)
  ELSE verifyPassword(user.password, password)

\* a lock that has run out restarts the count
handleFailedLoginAttempt_restarts(us, userId, currentAttempts, t) ==
  LET lock == us[userId].accountLockedUntil
      attempts == IF lock # NULL /\ getTime(lock) <= t THEN 1 ELSE currentAttempts + 1
  IN [ us EXCEPT ![userId].failedLoginAttempts = attempts,
                 ![userId].accountLockedUntil = calculateLockDuration(attempts, t) ]

\* handleFailedLoginAttempt(userId, currentAttempts): the user table after it
handleFailedLoginAttempt(us, userId, currentAttempts, t) ==
  [ us EXCEPT ![userId].failedLoginAttempts = currentAttempts + 1,
              ![userId].accountLockedUntil = calculateLockDuration(currentAttempts + 1, t) ]

\* the counter is left as it was
resetFailedAttempts_lockOnly(us, userId) ==
  [ us EXCEPT ![userId].accountLockedUntil = NULL ]

\* resetFailedAttempts(userId): the user table after it
resetFailedAttempts(us, userId) ==
  [ us EXCEPT ![userId].failedLoginAttempts = 0,
              ![userId].accountLockedUntil = NULL ]

\* generateTokens throws when an expiry string does not parse
generateTokensThrows ==
  parseExpiration(JWT_EXPIRES_IN) = NULL \/ parseExpiration(REFRESH_TOKEN_EXPIRY) = NULL

\* generateTokens rejects: an expiry string does not parse, jwt.sign throws, or
\* prisma.refreshToken.create fails
generateTokensFails == generateTokensThrows \/ "generateTokens" \in faults

\* the message of the error generateTokens rejects with
generateTokensError ==
  IF generateTokensThrows THEN "Invalid expiration format" ELSE "Token generation failed"

\* notificationService.sendEmail rejects with AppError(500, 'Failed to send email')
sendEmailFails == "sendEmail" \in faults

\* the jti claim of the access token: only the src revision embeds it
accessJti(jti) == IF build = "src" THEN Some(jti) ELSE NULL

\* the payloads are built without the userId
tokenPair_dropsUserId(userId, role, jti, t) ==
  [ accessToken  |-> jwtSign(0, role, accessJti(jti), "JWT_ACCESS_SECRET",
                             getTime(parseExpiration(JWT_EXPIRES_IN)), t),
    refreshToken |-> jwtSign(0, role, Some(jti), "JWT_REFRESH_SECRET",
                             getTime(parseExpiration(REFRESH_TOKEN_EXPIRY)), t) ]

\* generateTokens(userId, role): the pair returned
tokenPair(userId, role, jti, t) ==
  [ accessToken  |-> jwtSign(userId, role, accessJti(jti), "JWT_ACCESS_SECRET",
                             getTime(parseExpiration(JWT_EXPIRES_IN)), t),
    refreshToken |-> jwtSign(userId, role, Some(jti), "JWT_REFRESH_SECRET",
                             getTime(parseExpiration(REFRESH_TOKEN_EXPIRY)), t) ]

\* the row keeps the access token of the pair
refreshTokenRow_storesAccessToken(userId, role, jti, t) ==
  [ token |-> tokenPair(userId, role, jti, t).accessToken, userId |-> userId,
    expiresAt |-> t + getTime(parseExpiration(REFRESH_TOKEN_EXPIRY)) ]

\* generateTokens(userId, role): the RefreshToken row created
refreshTokenRow(userId, role, jti, t) ==
  [ token |-> tokenPair(userId, role, jti, t).refreshToken, userId |-> userId,
    expiresAt |-> t + getTime(parseExpiration(REFRESH_TOKEN_EXPIRY)) ]

\* a reset token that is still pending is kept
forgotPasswordUpdate_keepsPending(us, id, hashedToken, t) ==
  IF us[id].resetPasswordToken # NULL THEN us
  ELSE [ us EXCEPT ![id].resetPasswordToken = hashedToken,
                   ![id].resetPasswordExpire = Some(t + 15 * 60 * 1000) ]

\* forgotPassword's prisma.user.update({ resetPasswordToken, resetPasswordExpire })
forgotPasswordUpdate(us, id, hashedToken, t) ==
  [ us EXCEPT ![id].resetPasswordToken = hashedToken,
              ![id].resetPasswordExpire = Some(t + 15 * 60 * 1000) ]

\* the pending reset token is left in place
resetPasswordUpdate_keepsToken(us, id, hashedPassword) ==
  [ us EXCEPT ![id].password = hashedPassword ]

\* the reset also clears the lockout state and marks the account verified
resetPasswordUpdate_unlocks(us, id, hashedPassword) ==
  [ us EXCEPT ![id].password = hashedPassword,
              ![id].resetPasswordToken = NULL,
              ![id].resetPasswordExpire = NULL,
              ![id].failedLoginAttempts = 0,
              ![id].accountLockedUntil = NULL,
              ![id].isVerified = TRUE ]

\* resetPassword's prisma.user.update({ password, resetPasswordToken: null, ... })
resetPasswordUpdate(us, id, hashedPassword) ==
  [ us EXCEPT ![id].password = hashedPassword,
              ![id].resetPasswordToken = NULL,
              ![id].resetPasswordExpire = NULL ]

\* the first statement is kept when the transaction fails
prismaTransaction_partial(before, after) ==
  IF "$transaction" \in faults THEN << after[1], before[2] >> ELSE after

\* prisma.$transaction([user.update, refreshToken.deleteMany]): << users, refreshTokens >>
\* after the call, given them before it and as the two statements leave them
prismaTransaction(before, after) ==
  IF "$transaction" \in faults THEN before ELSE after

\* the pending reset token is cleared, as resetPassword does
updatePasswordUpdate_clearsReset(us, id, hashedPassword) ==
  resetPasswordUpdate(us, id, hashedPassword)

\* updatePassword's prisma.user.update({ data: { password } })
updatePasswordUpdate(us, id, hashedPassword) ==
  [ us EXCEPT ![id].password = hashedPassword ]

\* email.split('@')[0]
localPart(email) ==
  CASE email = "a@x.com" -> "a"
    [] email = "b@x.com" -> "b"
    [] email = "alice@x.com" -> "alice"
    [] OTHER -> "nobody"

\* hashPassword(randomPassword): the module neither declares nor imports a
\* hashPassword, so evaluating the call throws a ReferenceError; NULL stands for
\* the throw
hashPassword(pw) == NULL

\* every row is accepted
userCreate_unchecked(us, row) == Some(Append(us, row))

\* prisma.user.create: email and username are @unique; NULL stands for the
\* rejection of a row that repeats one of them
userCreate(us, row) ==
  IF \E i \in 1..Len(us) : us[i].email = row.email \/ us[i].username = row.username
  THEN NULL
  ELSE Some(Append(us, row))

\* the link forces nothing: isVerified is left as it was
googleLink_keepsUnverified(us, id, googleId) ==
  [ us EXCEPT ![id].googleId = Some(googleId),
              ![id].isGoogleUser = TRUE ]

\* the link also clears the lockout state, as a verification does
googleLink_clearsLock(us, id, googleId) ==
  [ us EXCEPT ![id].googleId = Some(googleId),
              ![id].isGoogleUser = TRUE,
              ![id].isVerified = TRUE,
              ![id].failedLoginAttempts = 0,
              ![id].accountLockedUntil = NULL ]

\* handleGoogleLogin's prisma.user.update({ googleId, isGoogleUser: true, isVerified: true })
googleLink(us, id, googleId) ==
  [ us EXCEPT ![id].googleId = Some(googleId),
              ![id].isGoogleUser = TRUE,
              ![id].isVerified = TRUE ]

\* the row handleGoogleLogin creates for an email that has no account
googleUser(id, profile, hashedPassword) ==
  [ newUser(id, profile.email, localPart(profile.email), hashedPassword) EXCEPT
      !.googleId = Some(profile.id),
      !.isGoogleUser = TRUE,
      !.isVerified = TRUE,
      !.role = RoleUser ]

\* handleGoogleLogin after its findUnique has returned user (NULL for none): the
\* user table after it and the id of the user returned; ok is FALSE when it
\* throws (the strategy then reports AppError(401, 'Google authentication failed'))
googleContinue(us, user, profile, randomPassword) ==
  LET hashedPassword == hashPassword(randomPassword)
      created == IF hashedPassword = NULL THEN NULL
                 ELSE userCreate(us, googleUser(Len(us) + 1, profile, hashedPassword))
  IN IF user # NULL
     THEN [ ok |-> TRUE, user |-> user.id,
            users |-> IF ~user.isGoogleUser THEN googleLink(us, user.id, profile.id)
                      ELSE us ]
     ELSE IF created = NULL
       THEN [ ok |-> FALSE, user |-> 0, users |-> us ]
     ELSE [ ok |-> TRUE, user |-> Len(us) + 1, users |-> getTime(created) ]

\* handleGoogleLogin(profile), run without interleaving
handleGoogleLogin(us, profile, randomPassword) ==
  LET id == findByEmail(us, profile.email)
  IN googleContinue(us, IF id = 0 THEN NULL ELSE us[id], profile, randomPassword)

\* prisma.refreshToken.deleteMany({ where: { userId } })
deleteManyRefreshTokens(rows, userId) == { r \in rows : r.userId # userId }

\* protect: the error passed to next(), NULL when the request goes through
protect(token) ==
  IF token = NULL THEN Some(AppError(401, "Not authenticated, token missing"))
  ELSE IF ~jwtVerify(token, "JWT_ACCESS_SECRET", now)
    THEN Some(AppError(401, "Not authenticated, token invalid"))
  ELSE IF build = "redis" /\ cacheExists(blacklistKey(token.jti))
    THEN Some(AppError(401, "Token has been revoked"))
  ELSE NULL

----------------------------------------------------------------------------
(* Responses *)

\* arg is the token the request presented (NULL when it carried none); for a
\* refused registration, the email and username it asked for
Response(op, status, message, user, tokens, arg) ==
  [ op |-> op, status |-> status, message |-> message, user |-> user,
    tokens |-> tokens, arg |-> arg, seen |-> NULL, minutes |-> 0 ]

\* a thrown value that is not an AppError: new Error(message), or what a failing
\* Prisma call rejects with
Exception(name, message) == [ name |-> name, message |-> message ]

\* errorHandler(err) for an err that is neither a ZodError nor an AppError: the
\* status and the message of the response
errorHandler(err) ==
  IF err.name = "JsonWebTokenError" THEN [ status |-> 401, message |-> "Invalid Token" ]
  ELSE IF err.name = "TokenExpiredError" THEN [ status |-> 401, message |-> "Token Expired" ]
  ELSE [ status |-> 500,
         message |-> IF err.message # "" THEN err.message ELSE "Internal Server Error" ]

\* the response to a request whose handler threw err
ErrorResponse(op, err, arg) ==
  Response(op, errorHandler(err).status, errorHandler(err).message, 0, NULL, arg)

LoginResponse(status, message, minutes, user, tokens) ==
  [ op |-> "login", status |-> status, message |-> message,
    user |-> IF user = NULL THEN 0 ELSE user.id,
    tokens |-> tokens, arg |-> NULL, seen |-> user, minutes |-> minutes ]

Slots == 1..MaxInflight
Idle == [ pc |-> "idle" ]

\* the process has started: empty tables, nothing sent, nothing issued
Boot ==
  /\ build \in Builds
  /\ now = 0
  /\ ticks = 0
  /\ redisOpen = TRUE
  /\ users = << >>
  /\ refreshTokens = {}
  /\ redis = {}
  /\ outbox = {}
  /\ issued = {}
  /\ nextRaw = 1
  /\ nextJti = 1
  /\ inflight = [ s \in Slots |-> Idle ]
  /\ loggedOut = {}
  /\ consumed = {}
  /\ faults = {}
  /\ log = {}
  /\ resp = Response("none", 0, "", 0, NULL, NULL)

Init == env = DefaultEnv /\ Boot

----------------------------------------------------------------------------
(* Requests, each handled without interleaving *)

\* POST /register
Register(email, username, password) ==
  LET existing == findByIdentifier(users, email, username)
      id == Len(users) + 1
      rawToken == Some(nextRaw)
      row == [ newUser(id, email, username, bcryptHash(password)) EXCEPT
                 !.verificationToken = sha256(rawToken),
                 !.verificationTokenExpires = Some(now + 24 * 60 * 60 * 1000) ]
  IN IF existing # 0
     THEN /\ resp' = Response("register", 400, "Registration failed", 0, NULL,
                              << email, username >>)
          /\ UNCHANGED << build, env, faults, log, now, ticks, redisOpen, users, refreshTokens, redis,
                          outbox, issued, nextRaw, nextJti, inflight, loggedOut, consumed >>
     ELSE /\ nextRaw <= MaxRaw
          /\ users' = Append(users, row)
          /\ nextRaw' = nextRaw + 1
          /\ IF sendEmailFails
             THEN /\ outbox' = outbox
                  /\ resp' = Response("register", 500, "Failed to send email", 0, NULL, NULL)
             ELSE /\ outbox' = outbox \cup
                       { [ to |-> email, template |-> "verification", token |-> rawToken ] }
                  /\ resp' = Response("register", 201, "", id, NULL, NULL)
          /\ UNCHANGED << build, env, faults, log, now, ticks, redisOpen, refreshTokens, redis, issued,
                          nextJti, inflight, loggedOut, consumed >>

\* POST /login
Login(identifier, password) ==
  LET id == findByIdentifier(users, identifier, identifier)
      user == IF id = 0 THEN NULL ELSE users[id]
      err == loginChecks(user, password, now)
  IN IF err = NULL /\ ~generateTokensFails
     THEN /\ nextJti <= MaxJti
          /\ users' = resetFailedAttempts(users, id)
          /\ refreshTokens' = refreshTokens \cup { refreshTokenRow(id, user.role, nextJti, now) }
          /\ issued' = issued \cup { tokenPair(id, user.role, nextJti, now) }
          /\ nextJti' = nextJti + 1
          /\ resp' = LoginResponse(200, "", 0, user,
                                   Some(tokenPair(id, user.role, nextJti, now)))
          /\ UNCHANGED << build, env, faults, log, now, ticks, redisOpen, redis, outbox, nextRaw, inflight,
                          loggedOut, consumed >>
     ELSE /\ user # NULL => user.failedLoginAttempts < MaxAttempts
          /\ users' = IF user = NULL THEN users
                      ELSE handleFailedLoginAttempt(users, id, user.failedLoginAttempts, now)
          /\ resp' = IF err = NULL
                     THEN LoginResponse(errorHandler(Exception("Error", generateTokensError)).status,
                                        errorHandler(Exception("Error", generateTokensError)).message,
                                        0, user, NULL)
                     ELSE LoginResponse(getTime(err).status, getTime(err).message,
                                        getTime(err).minutes, user, NULL)
          /\ UNCHANGED << build, env, faults, log, now, ticks, redisOpen, refreshTokens, redis, outbox,
                          issued, nextRaw, nextJti, inflight, loggedOut, consumed >>

\* GET /verify-email?token=
VerifyEmail(token) ==
  LET id == findByVerificationToken(users, sha256(token), now)
      updated == [ users EXCEPT ![id].isVerified = TRUE,
                                ![id].verificationToken = NULL,
                                ![id].verificationTokenExpires = NULL,
                                ![id].failedLoginAttempts = 0,
                                ![id].accountLockedUntil = NULL ]
      fail(status, message) ==
        /\ resp' = Response("verifyEmail", status, message, 0, NULL, token)
        \* logger.warn(`Invalid or expired verification token attempt: ${token}`)
        /\ log' = IF token # NULL /\ id = 0 THEN log \cup ({ token } \cap Minted) ELSE log
        /\ UNCHANGED << build, env, faults, now, ticks, redisOpen, users, refreshTokens, redis, outbox,
                        issued, nextRaw, nextJti, inflight, loggedOut, consumed >>
  IN IF token = NULL THEN fail(400, "Verification token is required")
     ELSE IF id = 0 THEN fail(400, "Invalid or expired verification token")
     ELSE IF users[id].isVerified THEN fail(400, "Email already verified")
     ELSE IF generateTokensFails
       THEN /\ users' = updated
            /\ resp' = ErrorResponse("verifyEmail", Exception("Error", generateTokensError),
                                      token)
            /\ UNCHANGED << build, env, faults, log, now, ticks, redisOpen, refreshTokens, redis,
                            outbox, issued, nextRaw, nextJti, inflight, loggedOut, consumed >>
     ELSE /\ nextJti <= MaxJti
          /\ users' = updated
          /\ refreshTokens' = refreshTokens \cup
               { refreshTokenRow(id, users[id].role, nextJti, now) }
          /\ issued' = issued \cup { tokenPair(id, users[id].role, nextJti, now) }
          /\ nextJti' = nextJti + 1
          /\ consumed' = consumed \cup { [ op |-> "verifyEmail", token |-> token ] }
          /\ resp' = Response("verifyEmail", 200, "Email verified successfully", id,
                              Some(tokenPair(id, users[id].role, nextJti, now)), token)
          /\ UNCHANGED << build, env, faults, log, now, ticks, redisOpen, redis, outbox, nextRaw, inflight,
                          loggedOut >>

\* POST /logout
Logout(refreshToken) ==
  IF ~jwtVerify(refreshToken, "JWT_REFRESH_SECRET", now)
  THEN /\ resp' = Response("logout", 401, "Invalid refresh token", 0, NULL, refreshToken)
       /\ UNCHANGED << build, env, faults, log, now, ticks, redisOpen, users, refreshTokens, redis, outbox,
                       issued, nextRaw, nextJti, inflight, loggedOut, consumed >>
  ELSE /\ redis' = IF build = "redis"
                   THEN cacheSet(blacklistKey(refreshToken.jti), 60 * 60 * 24 * 7)
                   ELSE redis
       /\ loggedOut' = loggedOut \cup { refreshToken }
       /\ resp' = Response("logout", 200, "Logged out successfully",
                           refreshToken.userId, NULL, refreshToken)
       /\ UNCHANGED << build, env, faults, log, now, ticks, redisOpen, users, refreshTokens, outbox, issued,
                       nextRaw, nextJti, inflight, consumed >>

\* the row of the presented token is deleted when the new pair is issued
RefreshToken_rotating(refreshToken) ==
  LET pair == tokenPair(refreshToken.userId, refreshToken.role, nextJti, now)
  IN IF ~jwtVerify(refreshToken, "JWT_REFRESH_SECRET", now)
       \/ (build = "redis" /\ cacheExists(blacklistKey(refreshToken.jti)))
     THEN /\ resp' = Response("refreshToken", 401, "Invalid refresh token", 0, NULL,
                              refreshToken)
          /\ UNCHANGED << build, env, faults, log, now, ticks, redisOpen, users, refreshTokens,
                          redis, outbox, issued, nextRaw, nextJti, inflight, loggedOut,
                          consumed >>
     ELSE /\ nextJti <= MaxJti
          /\ refreshTokens' =
               { x \in refreshTokens : x.token # refreshToken } \cup
               { refreshTokenRow(refreshToken.userId, refreshToken.role, nextJti, now) }
          /\ issued' = issued \cup { pair }
          /\ nextJti' = nextJti + 1
          /\ resp' = Response("refreshToken", 200, "", refreshToken.userId, Some(pair),
                              refreshToken)
          /\ UNCHANGED << build, env, faults, log, now, ticks, redisOpen, users, redis, outbox,
                          nextRaw, inflight, loggedOut, consumed >>

\* the account is read and a locked one is refused
RefreshToken_refusesLocked(refreshToken) ==
  LET fail(status, message) ==
        /\ resp' = Response("refreshToken", status, message, 0, NULL, refreshToken)
        /\ UNCHANGED << build, env, faults, log, now, ticks, redisOpen, users, refreshTokens,
                        redis, outbox, issued, nextRaw, nextJti, inflight, loggedOut,
                        consumed >>
      pair == tokenPair(refreshToken.userId, refreshToken.role, nextJti, now)
      user == users[refreshToken.userId]
  IN IF ~jwtVerify(refreshToken, "JWT_REFRESH_SECRET", now)
     THEN fail(401, "Invalid refresh token")
     ELSE IF build = "redis" /\ cacheExists(blacklistKey(refreshToken.jti))
       THEN fail(401, "Token revoked")
     ELSE IF /\ refreshToken.userId \in 1..Len(users)
             /\ user.accountLockedUntil # NULL
             /\ getTime(user.accountLockedUntil) > now
       THEN fail(403, "Account temporarily locked")
     ELSE IF generateTokensFails THEN fail(500, generateTokensError)
     ELSE /\ nextJti <= MaxJti
          /\ refreshTokens' = refreshTokens \cup
               { refreshTokenRow(refreshToken.userId, refreshToken.role, nextJti, now) }
          /\ issued' = issued \cup { pair }
          /\ nextJti' = nextJti + 1
          /\ resp' = Response("refreshToken", 200, "", refreshToken.userId, Some(pair),
                              refreshToken)
          /\ UNCHANGED << build, env, faults, log, now, ticks, redisOpen, users, redis, outbox,
                          nextRaw, inflight, loggedOut, consumed >>

\* POST /refresh-token
RefreshToken(refreshToken) ==
  LET fail(message) ==
        /\ resp' = Response("refreshToken", 401, message, 0, NULL, refreshToken)
        /\ UNCHANGED << build, env, faults, log, now, ticks, redisOpen, users, refreshTokens, redis, outbox,
                        issued, nextRaw, nextJti, inflight, loggedOut, consumed >>
      error(message) ==
        /\ resp' = ErrorResponse("refreshToken", Exception("Error", message), refreshToken)
        /\ UNCHANGED << build, env, faults, log, now, ticks, redisOpen, users, refreshTokens, redis,
                        outbox, issued, nextRaw, nextJti, inflight, loggedOut, consumed >>
      pair == tokenPair(refreshToken.userId, refreshToken.role, nextJti, now)
  IN IF ~jwtVerify(refreshToken, "JWT_REFRESH_SECRET", now) THEN fail("Invalid refresh token")
     ELSE IF build = "redis" /\ cacheExists(blacklistKey(refreshToken.jti))
       THEN fail("Token revoked")
     ELSE IF generateTokensFails THEN error(generateTokensError)
     ELSE /\ nextJti <= MaxJti
          /\ refreshTokens' = refreshTokens \cup
               { refreshTokenRow(refreshToken.userId, refreshToken.role, nextJti, now) }
          /\ issued' = issued \cup { pair }
          /\ nextJti' = nextJti + 1
          /\ resp' = Response("refreshToken", 200, "", refreshToken.userId, Some(pair), refreshToken)
          /\ UNCHANGED << build, env, faults, log, now, ticks, redisOpen, users, redis, outbox, nextRaw,
                          inflight, loggedOut, consumed >>

\* POST /forgot-password
ForgotPassword(email) ==
  LET id == findByEmail(users, email)
      rawToken == Some(nextRaw)
      sent == Response("forgotPassword", 200,
                       "If that email address is registered, a password reset email has been sent.",
                       0, NULL, NULL)
  IN /\ IF id = 0
        THEN /\ resp' = sent
             /\ UNCHANGED << users, nextRaw, outbox >>
        ELSE /\ nextRaw <= MaxRaw
             /\ users' = forgotPasswordUpdate(users, id, sha256(rawToken), now)
             /\ nextRaw' = nextRaw + 1
             /\ IF sendEmailFails
                THEN /\ outbox' = outbox
                     /\ resp' = Response("forgotPassword", 500, "Failed to send email",
                                         0, NULL, NULL)
                ELSE /\ outbox' = outbox \cup
                          { [ to |-> email, template |-> "password-reset", token |-> rawToken ] }
                     /\ resp' = sent
     /\ UNCHANGED << build, env, faults, log, now, ticks, redisOpen, refreshTokens, redis, issued, nextJti,
                     inflight, loggedOut, consumed >>

\* POST /reset-password?token=
ResetPassword(rawToken, newPassword) ==
  LET id == findByResetToken(users, sha256(rawToken), now)
      committed ==
        prismaTransaction(<< users, refreshTokens >>,
                          << resetPasswordUpdate(users, id, bcryptHash(newPassword)),
                             deleteManyRefreshTokens(refreshTokens, id) >>)
      fail(message) ==
        /\ resp' = Response("resetPassword", 400, message, 0, NULL, rawToken)
        /\ UNCHANGED << build, env, faults, log, now, ticks, redisOpen, users, refreshTokens, redis, outbox,
                        issued, nextRaw, nextJti, inflight, loggedOut, consumed >>
  IN IF rawToken = NULL THEN fail("Reset token is required")
     ELSE IF id = 0 THEN fail("Invalid or expired token")
     ELSE /\ users' = committed[1]
          /\ refreshTokens' = committed[2]
          /\ IF "$transaction" \in faults
             THEN /\ resp' = ErrorResponse("resetPassword",
                                           Exception("PrismaClientKnownRequestError",
                                                     "Transaction failed"), rawToken)
                  /\ UNCHANGED << redis, consumed >>
             ELSE /\ redis' = IF build = "redis" THEN cacheDelete(userTokensKey(id)) ELSE redis
                  /\ consumed' = consumed \cup { [ op |-> "resetPassword", token |-> rawToken ] }
                  /\ resp' = Response("resetPassword", 200, "Password has been reset", id,
                                      NULL, rawToken)
          /\ UNCHANGED << build, env, faults, log, now, ticks, redisOpen, outbox, issued, nextRaw, nextJti,
                          inflight, loggedOut >>

\* PATCH /update-password, behind protect
UpdatePassword(accessToken, currentPassword, newPassword) ==
  LET denied == protect(accessToken)
      userId == accessToken.userId
      committed ==
        prismaTransaction(<< users, refreshTokens >>,
                          << updatePasswordUpdate(users, userId, bcryptHash(newPassword)),
                             deleteManyRefreshTokens(refreshTokens, userId) >>)
      fail(status, message) ==
        /\ resp' = Response("updatePassword", status, message, 0, NULL, accessToken)
        /\ UNCHANGED << build, env, faults, log, now, ticks, redisOpen, users, refreshTokens, redis, outbox,
                        issued, nextRaw, nextJti, inflight, loggedOut, consumed >>
  IN IF denied # NULL THEN fail(getTime(denied).status, getTime(denied).message)
     ELSE IF userId \notin 1..Len(users) THEN fail(404, "User not found")
     ELSE IF verifyPassword(users[userId].password, currentPassword) # NULL
       THEN fail(401, "Invalid credentials")
     ELSE /\ users' = committed[1]
          /\ refreshTokens' = committed[2]
          /\ IF "$transaction" \in faults
             THEN /\ resp' = ErrorResponse("updatePassword",
                                           Exception("PrismaClientKnownRequestError",
                                                     "Transaction failed"), accessToken)
                  /\ redis' = redis
             ELSE /\ redis' = IF build = "redis" THEN cacheDelete(userTokensKey(userId))
                                                  ELSE redis
                  /\ resp' = Response("updatePassword", 200, "Password updated successfully",
                                      userId, NULL, accessToken)
          /\ UNCHANGED << build, env, faults, log, now, ticks, redisOpen, outbox, issued, nextRaw, nextJti,
                          inflight, loggedOut, consumed >>

\* GET /google/callback: the strategy's verify callback runs handleGoogleLogin,
\* then googleAuthCallback issues the pair and redirects with it.  A rejection of
\* generateTokens inside the callback is handled by nobody: no response is sent.
GoogleAuthCallback(profile) ==
  LET r == handleGoogleLogin(users, profile, "randomBytes(16)")
      role == r.users[r.user].role
      pair == tokenPair(r.user, role, nextJti, now)
  IN IF ~r.ok
     THEN /\ resp' = Response("googleAuthCallback", 302, "authentication_failed", 0, NULL,
                              Some(profile))
          /\ UNCHANGED << build, env, faults, log, now, ticks, redisOpen, users, refreshTokens,
                          redis, outbox, issued, nextRaw, nextJti, inflight, loggedOut,
                          consumed >>
     ELSE IF generateTokensFails
       THEN /\ users' = r.users
            /\ resp' = Response("googleAuthCallback", 0, "", 0, NULL, Some(profile))
            /\ UNCHANGED << build, env, faults, log, now, ticks, redisOpen, refreshTokens, redis,
                            outbox, issued, nextRaw, nextJti, inflight, loggedOut, consumed >>
     ELSE /\ nextJti <= MaxJti
          /\ users' = r.users
          /\ refreshTokens' = refreshTokens \cup { refreshTokenRow(r.user, role, nextJti, now) }
          /\ issued' = issued \cup { pair }
          /\ nextJti' = nextJti + 1
          /\ resp' = Response("googleAuthCallback", 302, "", r.user, Some(pair),
                              Some(profile))
          /\ UNCHANGED << build, env, faults, log, now, ticks, redisOpen, redis, outbox, nextRaw,
                          inflight, loggedOut, consumed >>

\* the Redis connection drops or comes back (only the redis revision uses it)
RedisConnection(open) ==
  /\ build = "redis"
  /\ redisOpen # open
  /\ redisOpen' = open
  /\ UNCHANGED << build, env, faults, log, now, ticks, users, refreshTokens, redis, outbox, issued,
                  nextRaw, nextJti, inflight, loggedOut, consumed, resp >>

\* a dependency starts or stops failing: nodemailer / the template loader behind
\* sendEmail, the signing and persisting inside generateTokens, prisma.$transaction
Faults == {"sendEmail", "generateTokens", "$transaction"}

Fault(f) ==
  /\ faults' = IF f \in faults THEN faults \ { f } ELSE faults \cup { f }
  /\ UNCHANGED << build, env, log, now, ticks, redisOpen, users, refreshTokens, redis, outbox,
                  issued, nextRaw, nextJti, inflight, loggedOut, consumed, resp >>

\* the passing of time
Tick(d) ==
  /\ ticks < MaxTicks
  /\ now + d <= MaxDays * 24 * 60 * 60 * 1000
  /\ now' = now + d
  /\ ticks' = ticks + 1
  /\ UNCHANGED << build, env, faults, log, redisOpen, users, refreshTokens, redis, outbox, issued,
                  nextRaw, nextJti, inflight, loggedOut, consumed, resp >>

----------------------------------------------------------------------------
(* login as the event loop runs it: the handler yields at each await *)

\* await prisma.user.findFirst(...): the request keeps the row it read
LoginLookup(s, identifier, password) ==
  LET id == findByIdentifier(users, identifier, identifier)
  IN /\ inflight[s] = Idle
     /\ \A q \in Slots : q < s => inflight[q] # Idle
     /\ inflight' = [ inflight EXCEPT ![s] =
          [ pc |-> "check", user |-> IF id = 0 THEN NULL ELSE users[id],
            password |-> password ] ]
     /\ UNCHANGED << build, env, faults, log, now, ticks, redisOpen, users, refreshTokens, redis, outbox,
                     issued, nextRaw, nextJti, loggedOut, consumed, resp >>

\* validateLoginAttempt, verifyPassword, then the write of resetFailedAttempts or,
\* from the catch block, of handleFailedLoginAttempt
LoginCheck(s) ==
  LET r == inflight[s]
      err == loginChecks(r.user, r.password, now)
  IN /\ r.pc = "check"
     /\ IF err = NULL
        THEN /\ users' = resetFailedAttempts(users, r.user.id)
             /\ inflight' = [ inflight EXCEPT ![s].pc = "issue" ]
             /\ resp' = resp
        ELSE /\ r.user # NULL => r.user.failedLoginAttempts < MaxAttempts
             /\ users' = IF r.user = NULL THEN users
                         ELSE handleFailedLoginAttempt(users, r.user.id,
                                                       r.user.failedLoginAttempts, now)
             /\ inflight' = [ inflight EXCEPT ![s] = Idle ]
             /\ resp' = LoginResponse(getTime(err).status, getTime(err).message,
                                      getTime(err).minutes, r.user, NULL)
     /\ UNCHANGED << build, env, faults, log, now, ticks, redisOpen, refreshTokens, redis, outbox, issued,
                     nextRaw, nextJti, loggedOut, consumed >>

\* await this.generateTokens(user.id, user.role), then the response
LoginIssue(s) ==
  LET r == inflight[s]
      pair == tokenPair(r.user.id, r.user.role, nextJti, now)
  IN /\ r.pc = "issue"
     /\ inflight' = [ inflight EXCEPT ![s] = Idle ]
     /\ IF generateTokensFails
        THEN /\ r.user.failedLoginAttempts < MaxAttempts
             /\ users' = handleFailedLoginAttempt(users, r.user.id,
                                                  r.user.failedLoginAttempts, now)
             /\ resp' = LoginResponse(errorHandler(Exception("Error", generateTokensError)).status,
                                      errorHandler(Exception("Error", generateTokensError)).message,
                                      0, r.user, NULL)
             /\ UNCHANGED << refreshTokens, issued, nextJti >>
        ELSE /\ nextJti <= MaxJti
             /\ refreshTokens' = refreshTokens \cup
                  { refreshTokenRow(r.user.id, r.user.role, nextJti, now) }
             /\ issued' = issued \cup { pair }
             /\ nextJti' = nextJti + 1
             /\ resp' = LoginResponse(200, "", 0, r.user, Some(pair))
             /\ users' = users
     /\ UNCHANGED << build, env, faults, log, now, ticks, redisOpen, redis, outbox, nextRaw,
                     loggedOut, consumed >>

----------------------------------------------------------------------------
(* register and the Google sign-in as the event loop runs them *)

\* await prisma.user.findFirst(...): the request keeps what it found
RegisterLookup(s, email, username, password) ==
  /\ inflight[s] = Idle
  /\ \A q \in Slots : q < s => inflight[q] # Idle
  /\ inflight' = [ inflight EXCEPT ![s] =
       [ pc |-> "create", email |-> email, username |-> username, password |-> password,
         existing |-> findByIdentifier(users, email, username) ] ]
  /\ UNCHANGED << build, env, faults, log, now, ticks, redisOpen, users, refreshTokens,
                  redis, outbox, issued, nextRaw, nextJti, loggedOut, consumed, resp >>

\* the rest of register: the refusal, or prisma.user.create and the message.  A
\* create that the unique constraints reject throws a Prisma error.
RegisterCreate(s) ==
  LET r == inflight[s]
      id == Len(users) + 1
      rawToken == Some(nextRaw)
      row == [ newUser(id, r.email, r.username, bcryptHash(r.password)) EXCEPT
                 !.verificationToken = sha256(rawToken),
                 !.verificationTokenExpires = Some(now + 24 * 60 * 60 * 1000) ]
      created == userCreate(users, row)
  IN /\ r.pc = "create"
     /\ inflight' = [ inflight EXCEPT ![s] = Idle ]
     /\ IF r.existing # 0
        THEN /\ resp' = Response("register", 400, "Registration failed", 0, NULL,
                                 << r.email, r.username >>)
             /\ UNCHANGED << users, nextRaw, outbox >>
        ELSE /\ nextRaw <= MaxRaw
             /\ nextRaw' = nextRaw + 1
             /\ IF created = NULL
                THEN /\ users' = users
                     /\ outbox' = outbox
                     /\ resp' = ErrorResponse("register",
                                              Exception("PrismaClientKnownRequestError",
                                                        "Unique constraint failed"),
                                              << r.email, r.username >>)
                ELSE /\ users' = getTime(created)
                     /\ IF sendEmailFails
                        THEN /\ outbox' = outbox
                             /\ resp' = Response("register", 500, "Failed to send email", 0,
                                                 NULL, NULL)
                        ELSE /\ outbox' = outbox \cup
                                  { [ to |-> r.email, template |-> "verification",
                                      token |-> rawToken ] }
                             /\ resp' = Response("register", 201, "", id, NULL, NULL)
     /\ UNCHANGED << build, env, faults, log, now, ticks, redisOpen, refreshTokens, redis,
                     issued, nextJti, loggedOut, consumed >>

\* handleGoogleLogin's await prisma.user.findUnique({ where: { email } })
GoogleLookup(s, profile) ==
  LET id == findByEmail(users, profile.email)
  IN /\ inflight[s] = Idle
     /\ \A q \in Slots : q < s => inflight[q] # Idle
     /\ inflight' = [ inflight EXCEPT ![s] =
          [ pc |-> "google", profile |-> profile,
            user |-> IF id = 0 THEN NULL ELSE users[id] ] ]
     /\ UNCHANGED << build, env, faults, log, now, ticks, redisOpen, users, refreshTokens,
                     redis, outbox, issued, nextRaw, nextJti, loggedOut, consumed, resp >>

\* the rest of handleGoogleLogin, then the callback's generateTokens and redirect
GoogleFinish(s) ==
  LET q == inflight[s]
      r == googleContinue(users, q.user, q.profile, "randomBytes(16)")
      role == r.users[r.user].role
      pair == tokenPair(r.user, role, nextJti, now)
  IN /\ q.pc = "google"
     /\ inflight' = [ inflight EXCEPT ![s] = Idle ]
     /\ IF ~r.ok
        THEN /\ resp' = Response("googleAuthCallback", 302, "authentication_failed", 0,
                                 NULL, Some(q.profile))
             /\ UNCHANGED << users, refreshTokens, issued, nextJti >>
        ELSE IF generateTokensFails
          THEN /\ users' = r.users
               /\ resp' = Response("googleAuthCallback", 0, "", 0, NULL, Some(q.profile))
               /\ UNCHANGED << refreshTokens, issued, nextJti >>
        ELSE /\ nextJti <= MaxJti
             /\ users' = r.users
             /\ refreshTokens' = refreshTokens \cup
                  { refreshTokenRow(r.user, role, nextJti, now) }
             /\ issued' = issued \cup { pair }
             /\ nextJti' = nextJti + 1
             /\ resp' = Response("googleAuthCallback", 302, "", r.user, Some(pair),
                                 Some(q.profile))
     /\ UNCHANGED << build, env, faults, log, now, ticks, redisOpen, redis, outbox, nextRaw,
                     loggedOut, consumed >>

----------------------------------------------------------------------------
(* verifyEmail and resetPassword as the event loop runs them *)

\* verifyEmail up to its await prisma.user.findFirst(...): the request keeps the
\* row it read (NULL for none)
VerifyLookup(s, token) ==
  LET id == findByVerificationToken(users, sha256(token), now)
  IN /\ inflight[s] = Idle
     /\ \A q \in Slots : q < s => inflight[q] # Idle
     /\ IF token = NULL
        THEN /\ resp' = Response("verifyEmail", 400, "Verification token is required", 0,
                                 NULL, token)
             /\ inflight' = inflight
        ELSE /\ inflight' = [ inflight EXCEPT ![s] =
                  [ pc |-> "verify", token |-> token,
                    user |-> IF id = 0 THEN NULL ELSE users[id] ] ]
             /\ resp' = resp
     /\ UNCHANGED << build, env, faults, log, now, ticks, redisOpen, users, refreshTokens,
                     redis, outbox, issued, nextRaw, nextJti, loggedOut, consumed >>

\* the two refusals, or await prisma.user.update({ where: { id: user.id }, ... })
VerifyUpdate(s) ==
  LET r == inflight[s]
      id == r.user.id
      fail(message) ==
        /\ resp' = Response("verifyEmail", 400, message, 0, NULL, r.token)
        /\ log' = IF r.user = NULL THEN log \cup ({ r.token } \cap Minted) ELSE log
        /\ inflight' = [ inflight EXCEPT ![s] = Idle ]
        /\ users' = users
  IN /\ r.pc = "verify"
     /\ IF r.user = NULL THEN fail("Invalid or expired verification token")
        ELSE IF r.user.isVerified THEN fail("Email already verified")
        ELSE /\ users' = [ users EXCEPT ![id].isVerified = TRUE,
                                        ![id].verificationToken = NULL,
                                        ![id].verificationTokenExpires = NULL,
                                        ![id].failedLoginAttempts = 0,
                                        ![id].accountLockedUntil = NULL ]
             /\ inflight' = [ inflight EXCEPT ![s].pc = "verified" ]
             /\ UNCHANGED << log, resp >>
     /\ UNCHANGED << build, env, faults, now, ticks, redisOpen, refreshTokens, redis, outbox,
                     issued, nextRaw, nextJti, loggedOut, consumed >>

\* await this.generateTokens(updatedUser.id, updatedUser.role), then the response
VerifyIssue(s) ==
  LET r == inflight[s]
      pair == tokenPair(r.user.id, r.user.role, nextJti, now)
  IN /\ r.pc = "verified"
     /\ inflight' = [ inflight EXCEPT ![s] = Idle ]
     /\ IF generateTokensFails
        THEN /\ resp' = ErrorResponse("verifyEmail", Exception("Error", generateTokensError),
                                       r.token)
             /\ UNCHANGED << refreshTokens, issued, nextJti, consumed >>
        ELSE /\ nextJti <= MaxJti
             /\ refreshTokens' = refreshTokens \cup
                  { refreshTokenRow(r.user.id, r.user.role, nextJti, now) }
             /\ issued' = issued \cup { pair }
             /\ nextJti' = nextJti + 1
             /\ consumed' = consumed \cup { [ op |-> "verifyEmail", token |-> r.token ] }
             /\ resp' = Response("verifyEmail", 200, "Email verified successfully",
                                 r.user.id, Some(pair), r.token)
     /\ UNCHANGED << build, env, faults, log, now, ticks, redisOpen, users, redis, outbox,
                     nextRaw, loggedOut >>

\* resetPassword up to its await prisma.user.findFirst(...)
ResetLookup(s, rawToken, newPassword) ==
  LET id == findByResetToken(users, sha256(rawToken), now)
  IN /\ inflight[s] = Idle
     /\ \A q \in Slots : q < s => inflight[q] # Idle
     /\ IF rawToken = NULL
        THEN /\ resp' = Response("resetPassword", 400, "Reset token is required", 0, NULL,
                                 rawToken)
             /\ inflight' = inflight
        ELSE /\ inflight' = [ inflight EXCEPT ![s] =
                  [ pc |-> "reset", token |-> rawToken, password |-> newPassword,
                    user |-> IF id = 0 THEN NULL ELSE users[id] ] ]
             /\ resp' = resp
     /\ UNCHANGED << build, env, faults, log, now, ticks, redisOpen, users, refreshTokens,
                     redis, outbox, issued, nextRaw, nextJti, loggedOut, consumed >>

\* the refusal, or bcrypt.hash and await prisma.$transaction([...]) on the id of
\* the row that was read, then the response
ResetCommit(s) ==
  LET r == inflight[s]
      id == r.user.id
      committed ==
        prismaTransaction(<< users, refreshTokens >>,
                          << resetPasswordUpdate(users, id, bcryptHash(r.password)),
                             deleteManyRefreshTokens(refreshTokens, id) >>)
  IN /\ r.pc = "reset"
     /\ inflight' = [ inflight EXCEPT ![s] = Idle ]
     /\ IF r.user = NULL
        THEN /\ resp' = Response("resetPassword", 400, "Invalid or expired token", 0, NULL,
                                 r.token)
             /\ UNCHANGED << users, refreshTokens, redis, consumed >>
        ELSE /\ users' = committed[1]
             /\ refreshTokens' = committed[2]
             /\ IF "$transaction" \in faults
                THEN /\ resp' = ErrorResponse("resetPassword",
                                              Exception("PrismaClientKnownRequestError",
                                                        "Transaction failed"), r.token)
                     /\ UNCHANGED << redis, consumed >>
                ELSE /\ redis' = IF build = "redis" THEN cacheDelete(userTokensKey(id))
                                                     ELSE redis
                     /\ consumed' = consumed \cup
                          { [ op |-> "resetPassword", token |-> r.token ] }
                     /\ resp' = Response("resetPassword", 200, "Password has been reset", id,
                                         NULL, r.token)
     /\ UNCHANGED << build, env, faults, log, now, ticks, redisOpen, outbox, issued, nextRaw,
                     nextJti, loggedOut >>

----------------------------------------------------------------------------
(* Specifications *)

Identifiers == Emails \cup Usernames

\* the same, and an identifier nobody registers
AnyIdentifier == Identifiers \cup {"nobody@x.com"}
RawTokens == { NULL, Some(0) } \cup Minted

\* the tokens of the verification links that were mailed
VerificationLinks == { m.token : m \in { x \in outbox : x.template = "verification" } }

\* the tokens of the password-reset links that were mailed
ResetLinks == { m.token : m \in { x \in outbox : x.template = "password-reset" } }

HeldTokens == { p.accessToken : p \in issued } \cup { p.refreshToken : p \in issued }

\* an access token this deployment signed for an account id that has no row
\* (accounts are removed outside the auth service)
OrphanTokens == { tokenPair(9, RoleUser, 0, 0).accessToken }

\* password login and lockout: requests served one at a time
Next ==
  \/ \E e \in Emails, u \in Usernames, p \in Passwords : Register(e, u, p)
  \/ \E i \in AnyIdentifier, p \in Passwords : Login(i, p)
  \/ \E r \in RawTokens : VerifyEmail(r)
  \/ \E d \in FineDeltas : Tick(d)

Spec == Init /\ [][Next]_vars

\* sessions: issuing, refreshing and revoking tokens, and the protected route
NextSession ==
  \/ \E e \in Emails, u \in Usernames, p \in Passwords : Register(e, u, p)
  \/ \E i \in Emails, p \in Passwords : Login(i, p)
  \/ \E r \in VerificationLinks : VerifyEmail(r)
  \/ \E t \in HeldTokens : Logout(t)
  \/ \E t \in HeldTokens : RefreshToken(t)
  \/ \E t \in HeldTokens, c \in Passwords, p \in Passwords : UpdatePassword(t, c, p)
  \/ \E o \in BOOLEAN : RedisConnection(o)
  \/ \E d \in Deltas : Tick(d)

SpecSession == Init /\ [][NextSession]_vars

\* changing the password: forgot / reset, the authenticated change, and refresh
NextPassword ==
  \/ \E e \in Emails, u \in Usernames : Register(e, u, "Secret123!")
  \/ \E i \in Emails, p \in Passwords : Login(i, p)
  \/ \E r \in VerificationLinks : VerifyEmail(r)
  \/ \E t \in HeldTokens : RefreshToken(t)
  \/ \E e \in Emails : ForgotPassword(e)
  \/ \E r \in ResetLinks, p \in Passwords : ResetPassword(r, p)
  \/ \E t \in HeldTokens, c \in Passwords, p \in Passwords : UpdatePassword(t, c, p)
  \/ \E d \in Deltas : Tick(d)

SpecPassword == Init /\ [][NextPassword]_vars

\* account recovery: verification and password-reset tokens
NextRecovery ==
  \/ \E e \in Emails, u \in Usernames : Register(e, u, "Secret123!")
  \/ \E r \in RawTokens : VerifyEmail(r)
  \/ \E e \in Emails : ForgotPassword(e)
  \/ \E r \in RawTokens : ResetPassword(r, "Other456!")
  \/ \E d \in Deltas : Tick(d)

SpecRecovery == Init /\ [][NextRecovery]_vars

\* accounts: registration with colliding names, and verification
MoreEmails == Emails \cup {"b@x.com"}
MoreUsernames == Usernames \cup {"bob"}

NextAccounts ==
  \/ \E e \in MoreEmails, u \in MoreUsernames, p \in Passwords : Register(e, u, p)
  \/ \E r \in RawTokens : VerifyEmail(r)

SpecAccounts == Init /\ [][NextAccounts]_vars

\* failures of the mail sender, of token generation and of the transaction
NextFaults ==
  \/ \E e \in Emails, u \in Usernames, p \in Passwords : Register(e, u, p)
  \/ \E r \in VerificationLinks : VerifyEmail(r)
  \/ \E e \in MoreEmails : ForgotPassword(e)
  \/ \E r \in ResetLinks, p \in Passwords : ResetPassword(r, p)
  \/ \E t \in HeldTokens \cup OrphanTokens, c \in Passwords, p \in Passwords :
       UpdatePassword(t, c, p)
  \/ \E f \in Faults : Fault(f)

SpecFaults == Init /\ [][NextFaults]_vars

\* refresh: a pair obtained at verification, refreshed and logged out
NextRefresh ==
  \/ \E e \in Emails, u \in Usernames, p \in Passwords : Register(e, u, p)
  \/ \E r \in VerificationLinks : VerifyEmail(r)
  \/ \E t \in HeldTokens : Logout(t)
  \/ \E t \in HeldTokens : RefreshToken(t)
  \/ \E o \in BOOLEAN : RedisConnection(o)
  \/ \E d \in Deltas : Tick(d)

SpecRefresh == Init /\ [][NextRefresh]_vars

\* Google sign-in beside the password login: linking, lockout state, token issue
Profiles == { [ id |-> "g-1", email |-> e ] : e \in MoreEmails }

NextOAuth ==
  \/ \E e \in Emails, u \in Usernames, p \in Passwords : Register(e, u, p)
  \/ \E r \in VerificationLinks : VerifyEmail(r)
  \/ \E i \in Identifiers, p \in Passwords : Login(i, p)
  \/ \E e \in Emails : ForgotPassword(e)
  \/ \E g \in Profiles : GoogleAuthCallback(g)

SpecOAuth == Init /\ [][NextOAuth]_vars

\* configuration: the expiry strings an operator may set.  The defaults, a
\* well-formed '15m' / '1d', and two shapes parseExpiration does not match: the
\* plain number '3600' and '7 days'
Environments ==
  { DefaultEnv,
    [ JWT_EXPIRES_IN |-> << "1", "5", "m" >>, REFRESH_TOKEN_EXPIRY |-> << "1", "d" >> ],
    [ JWT_EXPIRES_IN |-> << "3", "6", "0", "0" >>, REFRESH_TOKEN_EXPIRY |-> << "7", "d" >> ],
    [ JWT_EXPIRES_IN |-> << "1", "h" >>,
      REFRESH_TOKEN_EXPIRY |-> << "7", " ", "d", "a", "y", "s" >> ] }

\* the module is loaded with whatever the environment holds: nothing is parsed
\* until generateTokens runs
InitConfig == env \in Environments /\ Boot

NextConfig ==
  \/ \E e \in Emails, u \in Usernames, p \in Passwords : Register(e, u, p)
  \/ \E r \in VerificationLinks : VerifyEmail(r)
  \/ \E i \in Identifiers, p \in Passwords : Login(i, p)
  \/ \E t \in HeldTokens : RefreshToken(t)
  \/ \E g \in Profiles : GoogleAuthCallback(g)
  \/ \E d \in Deltas : Tick(d)

SpecConfig == InitConfig /\ [][NextConfig]_vars

\* issuing: every request that returns a token pair, with token generation failing
\* at times
NextIssue ==
  \/ \E e \in Emails, u \in Usernames, p \in Passwords : Register(e, u, p)
  \/ \E r \in VerificationLinks : VerifyEmail(r)
  \/ \E i \in Emails, p \in Passwords : Login(i, p)
  \/ \E t \in HeldTokens : RefreshToken(t)
  \/ \E g \in Profiles : GoogleAuthCallback(g)
  \/ \E f \in {"generateTokens"} : Fault(f)

SpecIssue == Init /\ [][NextIssue]_vars

\* concurrent logins: each login request takes its steps between those of others
NextConc ==
  \/ \E e \in Emails, u \in Usernames, p \in Passwords : Register(e, u, p)
  \/ \E r \in VerificationLinks : VerifyEmail(r)
  \/ \E s \in Slots, i \in Identifiers, p \in Passwords : LoginLookup(s, i, p)
  \/ \E s \in Slots : LoginCheck(s)
  \/ \E s \in Slots : LoginIssue(s)
  \/ \E d \in Deltas : Tick(d)

\* login is the same code in both revisions: the src revision is the one run
InitConc == Init /\ build = "src"

SpecConc == InitConc /\ [][NextConc]_vars

\* signing up: register and Google sign-in requests taking their steps between
\* those of others
NextSignup ==
  \/ \E s \in Slots, e \in MoreEmails, u \in MoreUsernames :
       RegisterLookup(s, e, u, "Secret123!")
  \/ \E s \in Slots : RegisterCreate(s)
  \/ \E s \in Slots, g \in Profiles : GoogleLookup(s, g)
  \/ \E s \in Slots : GoogleFinish(s)

\* register and handleGoogleLogin too are the same code in both revisions
SpecSignup == InitConc /\ [][NextSignup]_vars

\* single-use tokens under concurrency: verifyEmail and resetPassword requests
\* taking their steps between those of others
NextTokens ==
  \/ \E e \in Emails, u \in Usernames : Register(e, u, "Secret123!")
  \/ \E e \in Emails : ForgotPassword(e)
  \/ \E s \in Slots, r \in VerificationLinks : VerifyLookup(s, r)
  \/ \E s \in Slots : VerifyUpdate(s)
  \/ \E s \in Slots : VerifyIssue(s)
  \/ \E s \in Slots, r \in ResetLinks, p \in Passwords : ResetLookup(s, r, p)
  \/ \E s \in Slots : ResetCommit(s)

\* both revisions run the same verifyEmail; their resetPassword differs only in
\* the cache entry it deletes
SpecTokens == InitConc /\ [][NextTokens]_vars

\* one login in flight while the password is changed by requests served whole
NextRace ==
  \/ \E e \in Emails, u \in Usernames : Register(e, u, "Secret123!")
  \/ \E r \in VerificationLinks : VerifyEmail(r)
  \/ \E i \in Emails, p \in Passwords : LoginLookup(1, i, p)
  \/ \E s \in Slots : LoginCheck(s)
  \/ \E s \in Slots : LoginIssue(s)
  \/ \E e \in Emails : ForgotPassword(e)
  \/ \E r \in ResetLinks : ResetPassword(r, "Other456!")
  \/ \E t \in HeldTokens, c \in Passwords : UpdatePassword(t, c, "Other456!")

\* login and resetPassword are the same code in both revisions, and updatePassword
\* differs only in the cache entry it deletes
SpecRace == InitConc /\ [][NextRace]_vars

\* the two ways of changing a password, with a reset pending or not
NextChange ==
  \/ \E e \in Emails, u \in Usernames : Register(e, u, "Secret123!")
  \/ \E r \in VerificationLinks : VerifyEmail(r)
  \/ \E e \in Emails : ForgotPassword(e)
  \/ \E r \in ResetLinks, p \in Passwords : ResetPassword(r, p)
  \/ \E t \in HeldTokens, c \in Passwords, p \in Passwords : UpdatePassword(t, c, p)
  \/ \E d \in Deltas : Tick(d)

SpecChange == Init /\ [][NextChange]_vars

\* a password reset for an account that is locked or not verified; the clock
\* advances by less than a lock or a reset token lasts
NextLocked ==
  \/ \E e \in Emails, u \in Usernames : Register(e, u, "Secret123!")
  \/ \E r \in VerificationLinks : VerifyEmail(r)
  \/ \E i \in Emails, p \in Passwords : Login(i, p)
  \/ \E e \in Emails : ForgotPassword(e)
  \/ \E r \in ResetLinks : ResetPassword(r, "Other456!")
  \/ \E d \in FineDeltas \ Deltas : Tick(d)

\* login is the same code in both revisions and resetPassword differs only in the
\* cache entry it deletes: the src revision is the one run
SpecLocked == InitConc /\ [][NextLocked]_vars

----------------------------------------------------------------------------
(* Claims *)

\* C1: once logout(t) has reported success for a refresh token t, every later
\* refreshToken(t) made while t is still unexpired is rejected with 401
\* 'Token revoked' and issues no token pair.
C1_RevokedAfterLogout ==
  [][\A t \in loggedOut :
       (jwtVerify(t, "JWT_REFRESH_SECRET", now) /\ RefreshToken(t)) =>
         /\ resp'.status = 401
         /\ resp'.message = "Token revoked"
         /\ issued' = issued
         /\ refreshTokens' = refreshTokens]_vars

\* a refresh token a client holds whose RefreshToken row is gone: rows are deleted
\* only by a password change, so it was issued before one
IssuedBeforePasswordChange(t) ==
  /\ t.secret = "JWT_REFRESH_SECRET"
  /\ t \notin { r.token : r \in refreshTokens }

\* C2: after resetPassword or updatePassword has succeeded for an account, a
\* refreshToken with a refresh token issued to it before the change is rejected
\* and returns no new pair.
C2_OldRefreshTokensRejected ==
  [][\A t \in HeldTokens :
       (IssuedBeforePasswordChange(t) /\ RefreshToken(t)) =>
         /\ resp'.status = 401
         /\ resp'.tokens = NULL
         /\ issued' = issued]_vars

\* accountLockedUntil?.getTime() > Date.now()
Locked(user, t) ==
  user.accountLockedUntil # NULL /\ getTime(user.accountLockedUntil) > t

\* C3: each wrong-password login on a verified account adds one to the counter;
\* with fewer than 3 failures accountLockedUntil is null, from the 3rd on it is at
\* least 15 minutes ahead, and from the 5th on at least 24 hours ahead.
C3_LockoutThresholds ==
  [][\A i \in Identifiers, p \in Passwords :
       LET id == findByIdentifier(users, i, i)
       IN (/\ resp'.op = "login"
           /\ id # 0
           /\ users[id].isVerified
           /\ ~bcryptCompare(p, users[id].password)
           /\ Login(i, p)) =>
            LET n == users'[id].failedLoginAttempts
                lock == users'[id].accountLockedUntil
            IN /\ n = users[id].failedLoginAttempts + 1
               /\ n < 3 => lock = NULL
               /\ n >= 3 => (lock # NULL /\ getTime(lock) >= now' + 15 * 60 * 1000)
               /\ n >= 5 => (lock # NULL /\ getTime(lock) >= now' + 24 * 60 * 60 * 1000)]_vars

\* the fifth failure in a row has just been answered and the account is locked 24 h
C3_Witness ==
  /\ resp.op = "login"
  /\ resp.status # 200
  /\ resp.user # 0
  /\ resp.seen.isVerified
  /\ resp.seen.failedLoginAttempts = 4
  /\ users[resp.user].failedLoginAttempts = 5
  /\ users[resp.user].accountLockedUntil = Some(now + 24 * 60 * 60 * 1000)

\* C4: a raw token that verifyEmail has accepted is refused by every later
\* verifyEmail, and one that resetPassword has accepted by every later
\* resetPassword, with 400 invalid/expired and no change to any account.
C4_SingleUse ==
  [][\A r \in RawTokens :
       /\ ([ op |-> "verifyEmail", token |-> r ] \in consumed /\ VerifyEmail(r)) =>
            /\ resp'.status = 400
            /\ resp'.message = "Invalid or expired verification token"
            /\ users' = users
            /\ issued' = issued
       /\ \A p \in Passwords :
            ([ op |-> "resetPassword", token |-> r ] \in consumed /\ ResetPassword(r, p)) =>
              /\ resp'.status = 400
              /\ resp'.message = "Invalid or expired token"
              /\ users' = users]_vars

\* a reset token that was accepted once has been presented again and refused
C4_Witness ==
  /\ resp.op = "resetPassword"
  /\ resp.status = 400
  /\ [ op |-> "resetPassword", token |-> resp.arg ] \in consumed
  /\ \E m \in outbox : m.template = "verification" /\
       [ op |-> "verifyEmail", token |-> m.token ] \in consumed

\* C5: login with the correct password on a verified account that is not locked
\* returns a token pair whose userId and role are the account's id and role.
C5_LoginTokensCarryAccount ==
  [][\A i \in Identifiers, p \in Passwords :
       LET id == findByIdentifier(users, i, i)
       IN (/\ resp'.op = "login"
           /\ id # 0
           /\ users[id].isVerified
           /\ ~Locked(users[id], now)
           /\ bcryptCompare(p, users[id].password)
           /\ Login(i, p)) =>
            /\ resp'.status = 200
            /\ resp'.tokens # NULL
            /\ getTime(resp'.tokens).accessToken.userId = users[id].id
            /\ getTime(resp'.tokens).accessToken.role = users[id].role
            /\ getTime(resp'.tokens).refreshToken.userId = users[id].id
            /\ getTime(resp'.tokens).refreshToken.role = users[id].role
            /\ getTime(resp'.tokens) \in issued']_vars

\* a login has just returned a pair carrying the account's id and role
C5_Witness ==
  /\ resp.op = "login"
  /\ resp.status = 200
  /\ resp.seen.isVerified
  /\ getTime(resp.tokens).accessToken.userId = resp.user
  /\ getTime(resp.tokens).accessToken.role = users[resp.user].role

\* C6: after logout(refreshToken) has succeeded, a protected request carrying the
\* access token of the same pair, still unexpired, is rejected with 401 by protect.
C6_AccessTokenRevokedByLogout ==
  [][\A pr \in issued, c \in Passwords, p \in Passwords :
       (/\ pr.refreshToken \in loggedOut
        /\ jwtVerify(pr.accessToken, "JWT_ACCESS_SECRET", now)
        /\ UpdatePassword(pr.accessToken, c, p)) =>
          /\ resp'.status = 401
          /\ resp'.message = "Token has been revoked"
          /\ users' = users]_vars

\* C7: the revocation entry written by logout for a refresh token does not expire
\* before the token's own signed expiry (both in seconds since the epoch).
C7_EntryOutlivesToken ==
  \A t \in loggedOut : \A e \in redis :
    e.key = blacklistKey(t.jti) => e.expireAt \div 1000 >= t.exp

\* C8: a login rejected because the account is locked or unverified leaves
\* failedLoginAttempts and accountLockedUntil unchanged.
C8_RejectedLoginLeavesCounters ==
  [][\A i \in Identifiers, p \in Passwords :
       LET id == findByIdentifier(users, i, i)
       IN (/\ id # 0
           /\ (Locked(users[id], now) \/ ~users[id].isVerified)
           /\ Login(i, p)) =>
            /\ users'[id].failedLoginAttempts = users[id].failedLoginAttempts
            /\ users'[id].accountLockedUntil = users[id].accountLockedUntil]_vars

\* C9: in a step that is not a reset of the account's lockout state (one that sets
\* the counter to 0), failedLoginAttempts does not decrease and a set
\* accountLockedUntil is neither cleared nor moved to an earlier instant.
C9_LockoutMonotonic ==
  [][\A u \in 1..Len(users) :
       users'[u].failedLoginAttempts # 0 =>
         /\ users'[u].failedLoginAttempts >= users[u].failedLoginAttempts
         /\ users[u].accountLockedUntil # NULL =>
              /\ users'[u].accountLockedUntil # NULL
              /\ getTime(users'[u].accountLockedUntil) >=
                   getTime(users[u].accountLockedUntil)]_vars

\* C10: a login with the correct password on a verified, unlocked account that
\* has 1 or 2 failed attempts writes failedLoginAttempts = 0 and accountLockedUntil
\* = null in a step that issues no token; the pair is issued by a later step.
C10_ResetBeforeIssue ==
  [][\A s \in Slots :
       LET r == inflight[s]
       IN (/\ r.pc = "check"
           /\ r.user # NULL
           /\ r.user.isVerified
           /\ ~Locked(r.user, now)
           /\ r.user.failedLoginAttempts \in {1, 2}
           /\ bcryptCompare(r.password, r.user.password)
           /\ LoginCheck(s)) =>
            /\ users'[r.user.id].failedLoginAttempts = 0
            /\ users'[r.user.id].accountLockedUntil = NULL
            /\ issued' = issued
            /\ refreshTokens' = refreshTokens
            /\ inflight'[s].pc = "issue"]_vars

\* the counter has been reset for a login that read 1 or 2 failed attempts, and
\* its token pair is not issued yet
C10_Witness ==
  \E s \in Slots :
    /\ inflight[s].pc = "issue"
    /\ inflight[s].user.failedLoginAttempts \in {1, 2}
    /\ users[inflight[s].user.id].failedLoginAttempts = 0
    /\ users[inflight[s].user.id].accountLockedUntil = NULL
    /\ \A pr \in issued : pr.refreshToken.iat < now \div 1000

\* C11: login rejects in a fixed order, whatever the password: an identifier that
\* matches no account gets 401 'Invalid credentials'; otherwise an account locked
\* into the future gets 403 'locked' with ceil((accountLockedUntil - now) / 60 s)
\* minutes, verified or not; otherwise an unverified account gets 403 'Please
\* verify your email first'.
C11_RejectionOrder ==
  [][\A i \in AnyIdentifier, p \in Passwords :
       LET id == findByIdentifier(users, i, i)
       IN (/\ resp'.op = "login"
           /\ resp'.seen = (IF id = 0 THEN NULL ELSE users[id])
           /\ Login(i, p)) =>
            /\ id = 0 =>
                 (resp'.status = 401 /\ resp'.message = "Invalid credentials")
            /\ (id # 0 /\ Locked(users[id], now)) =>
                 LET left == getTime(users[id].accountLockedUntil) - now
                 IN /\ resp'.status = 403
                    /\ resp'.message = "Account temporarily locked"
                    /\ resp'.minutes * 60 * 1000 >= left
                    /\ (resp'.minutes - 1) * 60 * 1000 < left
            /\ (id # 0 /\ ~Locked(users[id], now) /\ ~users[id].isVerified) =>
                 (resp'.status = 403 /\ resp'.message = "Please verify your email first")]_vars

\* a login with the correct password on a locked, unverified account was answered
\* 'locked', half a minute before the lock ends, with 1 minute reported
C11_Witness ==
  /\ resp.op = "login"
  /\ resp.status = 403
  /\ resp.message = "Account temporarily locked"
  /\ ~resp.seen.isVerified
  /\ resp.minutes = 1
  /\ getTime(resp.seen.accountLockedUntil) - now = 30 * 1000

\* C12: a login whose identifier is no account's email or username is answered
\* 401 and leaves every User row and every RefreshToken row as it was.
C12_UnknownIdentifierNoEffect ==
  [][\A i \in AnyIdentifier, p \in Passwords :
       (/\ resp'.op = "login"
        /\ \A u \in 1..Len(users) : users[u].email # i /\ users[u].username # i
        /\ Login(i, p)) =>
         /\ resp'.status = 401
         /\ resp'.tokens = NULL
         /\ users' = users
         /\ refreshTokens' = refreshTokens
         /\ issued' = issued]_vars

\* with an account and a RefreshToken row in the store, a login with an
\* identifier that matches nothing has been answered 401
C12_Witness ==
  /\ resp.op = "login"
  /\ resp.status = 401
  /\ resp.seen = NULL
  /\ Len(users) > 0
  /\ refreshTokens # {}

\* C13: a register whose email or username is already held by an account is
\* answered 400 'Registration failed', the same for an email, a username or a
\* double collision; it creates no account and sends no message.
C13_RegistrationCollision ==
  [][\A e \in MoreEmails, u \in MoreUsernames, p \in Passwords :
       ((\E a \in 1..Len(users) : users[a].email = e \/ users[a].username = u)
        /\ Register(e, u, p)) =>
         /\ resp'.status = 400
         /\ resp'.message = "Registration failed"
         /\ resp'.user = 0
         /\ users' = users
         /\ outbox' = outbox]_vars

\* a registration whose username alone is taken has been refused
C13_Witness ==
  /\ resp.op = "register"
  /\ resp.status = 400
  /\ \E a \in 1..Len(users) : users[a].username = resp.arg[2]
  /\ \A a \in 1..Len(users) : users[a].email # resp.arg[1]

\* C14: forgotPassword answers every email, registered or not, with the same 200
\* and the same generic message; for an email with no account it sends no message
\* and changes no record.
C14_ForgotPasswordUniform ==
  [][\A e \in MoreEmails :
       ForgotPassword(e) =>
         /\ resp'.status = 200
         /\ resp'.message =
              "If that email address is registered, a password reset email has been sent."
         /\ (\A a \in 1..Len(users) : users[a].email # e) =>
              (outbox' = outbox /\ users' = users /\ refreshTokens' = refreshTokens)]_vars

\* C15: in every reachable state no stored password is the plaintext of a
\* password given to register, resetPassword or updatePassword, and no stored
\* verificationToken or resetPasswordToken is a raw token that was minted for the
\* message sender.
C15_OnlyHashesStored ==
  \A u \in 1..Len(users) :
    /\ \A p \in Passwords : users[u].password # plaintext(p)
    /\ \A r \in Minted :
         /\ users[u].verificationToken # r
         /\ users[u].resetPasswordToken # r

\* resetPassword has just stored a new password for an account whose verification
\* token is still pending: the password and the token are stored as hashes
C15_Witness ==
  /\ resp.op = "resetPassword"
  /\ resp.status = 200
  /\ \E p \in Passwords : users[resp.user].password = bcryptHash(p)
  /\ \E r \in Minted : users[resp.user].verificationToken = sha256(r)
  /\ \E m \in outbox : m.template = "password-reset"

\* C16: no raw token minted by register or forgotPassword is ever written into a
\* log line or into a stored record, whatever is later done with it, presenting
\* it to verifyEmail after its expiry included.
C16_RawTokenNeverLogged ==
  /\ log \cap Minted = {}
  /\ \A u \in 1..Len(users), r \in Minted :
       users[u].verificationToken # r /\ users[u].resetPasswordToken # r

\* the RefreshToken rows of an account
rowsOf(rows, userId) == { x \in rows : x.userId = userId }

\* C17: in resetPassword and updatePassword the password update and the deletion
\* of the account's RefreshToken rows take effect together, also when the
\* transaction fails: a step either stores the new hash and leaves none of the
\* rows the account had, or changes neither table; and no step of any request
\* changes an account's password while a row it had remains.
C17_PasswordChangeAtomic ==
  [][/\ \A r \in ResetLinks, p \in Passwords :
          (resp'.op = "resetPassword" /\ ResetPassword(r, p)) =>
            LET id == findByResetToken(users, sha256(r), now)
            IN \/ users' = users /\ refreshTokens' = refreshTokens
               \/ /\ id # 0
                  /\ users'[id].password = bcryptHash(p)
                  /\ rowsOf(refreshTokens, id) \cap refreshTokens' = {}
     /\ \A t \in HeldTokens, c \in Passwords, p \in Passwords :
          (resp'.op = "updatePassword" /\ UpdatePassword(t, c, p)) =>
            \/ users' = users /\ refreshTokens' = refreshTokens
            \/ /\ users'[t.userId].password = bcryptHash(p)
               /\ rowsOf(refreshTokens, t.userId) \cap refreshTokens' = {}
     /\ \A u \in 1..Len(users) :
          users'[u].password # users[u].password =>
            rowsOf(refreshTokens, u) \cap refreshTokens' = {}]_vars

\* a password change has failed in its transaction: the account keeps its
\* RefreshToken rows and its password
C17_Witness ==
  /\ resp.op \in {"resetPassword", "updatePassword"}
  /\ resp.status = 500
  /\ "$transaction" \in faults
  /\ \E u \in 1..Len(users) :
       /\ rowsOf(refreshTokens, u) # {}
       /\ users[u].password = bcryptHash("Secret123!")

\* the accounts whose pending verification (reset) token is the hash of r and
\* whose expiry is still strictly ahead of t
LiveVerification(r, t) ==
  { u \in 1..Len(users) :
      /\ users[u].verificationToken = sha256(r)
      /\ users[u].verificationTokenExpires # NULL
      /\ getTime(users[u].verificationTokenExpires) > t }

LiveReset(r, t) ==
  { u \in 1..Len(users) :
      /\ users[u].resetPasswordToken = sha256(r)
      /\ users[u].resetPasswordExpire # NULL
      /\ getTime(users[u].resetPasswordExpire) > t }

\* C18: register stores an expiry 24 hours ahead and forgotPassword one 15
\* minutes ahead; verifyEmail and resetPassword accept a raw token only while
\* that expiry is strictly in the future, and at or after it answer 400 and
\* change no record.
C18_ExpiryWindows ==
  [][/\ \A u \in 1..Len(users') :
          /\ (u > Len(users) /\ users'[u].verificationToken # NULL) =>
               users'[u].verificationTokenExpires = Some(now + 24 * 60 * 60 * 1000)
          /\ (u <= Len(users) /\ users'[u].resetPasswordToken # NULL
                /\ users'[u].resetPasswordToken # users[u].resetPasswordToken) =>
               users'[u].resetPasswordExpire = Some(now + 15 * 60 * 1000)
     /\ \A r \in RawTokens :
          (resp'.op = "verifyEmail" /\ VerifyEmail(r)) =>
            IF LiveVerification(r, now) = {}
            THEN /\ resp'.status = 400
                 /\ users' = users
                 /\ refreshTokens' = refreshTokens
                 /\ issued' = issued
            ELSE resp'.status = 200
     /\ \A r \in RawTokens, p \in Passwords :
          (resp'.op = "resetPassword" /\ ResetPassword(r, p)) =>
            IF LiveReset(r, now) = {}
            THEN /\ resp'.status = 400
                 /\ users' = users
                 /\ refreshTokens' = refreshTokens
            ELSE resp'.status = 200]_vars

\* the pending verification token has been presented at the very instant of its
\* expiry and refused
C18_Witness ==
  /\ resp.op = "verifyEmail"
  /\ resp.status = 400
  /\ \E u \in 1..Len(users) :
       /\ users[u].verificationToken = sha256(resp.arg)
       /\ users[u].verificationTokenExpires = Some(now)

\* C19: a verifyEmail that succeeds sets isVerified, clears the verification
\* token and its expiry, sets failedLoginAttempts to 0 and accountLockedUntil to
\* null, and returns the account with a newly issued token pair; a verifyEmail
\* that does not succeed changes no record.
C19_VerifyEmailEffect ==
  [][\A r \in RawTokens :
       (resp'.op = "verifyEmail" /\ VerifyEmail(r)) =>
         IF resp'.status = 200
         THEN LET id == resp'.user
              IN /\ id \in LiveVerification(r, now)
                 /\ users'[id].isVerified
                 /\ users'[id].verificationToken = NULL
                 /\ users'[id].verificationTokenExpires = NULL
                 /\ users'[id].failedLoginAttempts = 0
                 /\ users'[id].accountLockedUntil = NULL
                 /\ resp'.tokens # NULL
                 /\ getTime(resp'.tokens) \in issued' \ issued
                 /\ getTime(resp'.tokens).refreshToken.userId = id
                 /\ getTime(resp'.tokens).refreshToken.role = users[id].role
         ELSE /\ users' = users
              /\ refreshTokens' = refreshTokens]_vars

\* the refresh token is one refreshToken would accept now: signed with the refresh
\* secret, unexpired, never logged out, its RefreshToken row in place
Acceptable(t) ==
  /\ jwtVerify(t, "JWT_REFRESH_SECRET", now)
  /\ t \notin loggedOut
  /\ t \in { x.token : x \in refreshTokens }

C21_GoogleCreatesAccount ==
  [][\A g \in Profiles :
       ((\A u \in 1..Len(users) : users[u].email # g.email)
        /\ GoogleAuthCallback(g)) =>
         /\ Len(users') = Len(users) + 1
         /\ LET a == users'[Len(users')]
            IN /\ a.email = g.email
               /\ a.username = localPart(g.email)
               /\ a.isVerified
               /\ a.isGoogleUser
               /\ a.role = RoleUser
               /\ a.password[1] = "$2a$12$"
         /\ SubSeq(users', 1, Len(users)) = users
         /\ resp'.tokens # NULL
         /\ getTime(resp'.tokens).refreshToken.userId = Len(users')]_vars

\* C22: a Google sign-in whose profile email belongs to an account that is not
\* linked sets googleId to the profile id, isGoogleUser and isVerified, and
\* leaves every other column of that account (password, role, failed-login
\* counter, lock, pending tokens) and every other account as it was.
C22_GoogleLinksAccount ==
  [][\A g \in Profiles :
       LET id == findByEmail(users, g.email)
       IN (id # 0 /\ ~users[id].isGoogleUser /\ GoogleAuthCallback(g)) =>
            /\ Len(users') = Len(users)
            /\ users'[id] = [ users[id] EXCEPT !.googleId = Some(g.id),
                                               !.isGoogleUser = TRUE,
                                               !.isVerified = TRUE ]
            /\ \A u \in 1..Len(users) : u # id => users'[u] = users[u]]_vars

\* a Google sign-in has linked an account that was never verified by its link,
\* is locked after three failures and has a reset token pending: all of it is
\* still there beside the password
C22_Witness ==
  /\ resp.op = "googleAuthCallback"
  /\ resp.user # 0
  /\ users[resp.user].googleId = Some("g-1")
  /\ users[resp.user].isGoogleUser
  /\ users[resp.user].isVerified
  /\ users[resp.user].verificationToken # NULL
  /\ users[resp.user].resetPasswordToken # NULL
  /\ users[resp.user].failedLoginAttempts = 3
  /\ users[resp.user].accountLockedUntil # NULL
  /\ users[resp.user].password = bcryptHash("Secret123!")

C24_MalformedExpiryRejectedAtStartup ==
  [][generateTokensThrows =>
       /\ ~(resp'.status = 500 /\ resp'.message = "Invalid expiration format")
       /\ ~(resp'.op = "googleAuthCallback" /\ resp'.status = 0)
       /\ (/\ resp'.op \in {"login", "verifyEmail", "refreshToken", "googleAuthCallback"}
           /\ resp'.status \in {0, 500}) => users' = users]_vars

\* C25: with the default configuration an access token is refused from 1 hour
\* after it was issued and a refresh token from 7 days after, and the expiresAt
\* of the RefreshToken row is the instant of the refresh token's exp claim.
C25_DefaultLifetimes ==
  \A p \in issued :
    /\ now >= p.accessToken.iat * 1000 + 60 * 60 * 1000 =>
         ~jwtVerify(p.accessToken, "JWT_ACCESS_SECRET", now)
    /\ now >= p.refreshToken.iat * 1000 + 7 * 24 * 60 * 60 * 1000 =>
         ~jwtVerify(p.refreshToken, "JWT_REFRESH_SECRET", now)
    /\ \A x \in refreshTokens :
         x.token = p.refreshToken => x.expiresAt \div 1000 = p.refreshToken.exp

\* C26: a request that fails with an exception that is not an AppError (the
\* record store rejecting the password transaction, token generation failing) is
\* answered 500 with the fixed message 'Internal Server Error', never with the
\* message of the exception.
C26_GenericInternalError ==
  [][/\ \A r \in ResetLinks, p \in Passwords :
          (/\ resp'.op = "resetPassword"
           /\ "$transaction" \in faults
           /\ findByResetToken(users, sha256(r), now) # 0
           /\ ResetPassword(r, p)) =>
            (resp'.status = 500 /\ resp'.message = "Internal Server Error")
     /\ \A r \in VerificationLinks :
          (/\ resp'.op = "verifyEmail"
           /\ generateTokensFails
           /\ LiveVerification(r, now) # {}
           /\ VerifyEmail(r)) =>
            (resp'.status = 500 /\ resp'.message = "Internal Server Error")]_vars

\* C27: in every reachable state, however register and Google sign-in requests
\* interleave, no two accounts have the same email and no two have the same
\* username.
C27_UniqueEmailAndUsername ==
  \A i \in 1..Len(users), j \in 1..Len(users) :
    i # j => (users[i].email # users[j].email /\ users[i].username # users[j].username)

\* two register requests for the same email both found it free; the first
\* created the account and the second was stopped by the unique constraint
C27_Witness ==
  /\ resp.op = "register"
  /\ resp.status = 500
  /\ resp.message = "Unique constraint failed"
  /\ \E u \in 1..Len(users) : users[u].email = resp.arg[1]

\* C28: an updatePassword that passed protect is answered 404 when its account
\* id has no account and 401 when the current password does not match the
\* stored hash; in both cases no password and no RefreshToken row changes.
C28_UpdatePasswordRefusals ==
  [][\A t \in HeldTokens \cup OrphanTokens, c \in Passwords, p \in Passwords :
       (resp'.op = "updatePassword" /\ protect(t) = NULL /\ UpdatePassword(t, c, p)) =>
         /\ t.userId \notin 1..Len(users) =>
              /\ resp'.status = 404
              /\ users' = users
              /\ refreshTokens' = refreshTokens
         /\ (t.userId \in 1..Len(users)
               /\ ~bcryptCompare(c, users[t.userId].password)) =>
              /\ resp'.status = 401
              /\ resp'.message = "Invalid credentials"
              /\ users' = users
              /\ refreshTokens' = refreshTokens]_vars

\* an updatePassword with the wrong current password has been refused for an
\* account that has RefreshToken rows: they and its password are in place
C28_Witness ==
  /\ resp.op = "updatePassword"
  /\ resp.status = 401
  /\ resp.message = "Invalid credentials"
  /\ resp.arg.userId \in 1..Len(users)
  /\ rowsOf(refreshTokens, resp.arg.userId) # {}
  /\ users[resp.arg.userId].password = bcryptHash("Secret123!")

\* C29: every token pair handed out by login, verifyEmail, refreshToken or the
\* Google callback comes with exactly one new RefreshToken row, whose token is
\* the pair's refresh token and whose userId is the account the pair is for; a
\* response carries only a pair issued in that step; and while generateTokens
\* fails (the row cannot be persisted) no pair is returned and no row is added.
C29_PairHasItsRow ==
  [][/\ \A p \in issued' \ issued :
          /\ Cardinality(refreshTokens' \ refreshTokens) = 1
          /\ \A x \in refreshTokens' \ refreshTokens :
               /\ x.token = p.refreshToken
               /\ x.userId = p.refreshToken.userId
               /\ x.userId \in 1..Len(users')
     /\ refreshTokens' # refreshTokens => issued' # issued
     /\ (resp' # resp /\ resp'.tokens # NULL) =>
          /\ getTime(resp'.tokens) \in issued' \ issued
          /\ getTime(resp'.tokens).refreshToken.userId = resp'.user
     /\ (resp' # resp /\ "generateTokens" \in faults) =>
          /\ resp'.tokens = NULL
          /\ issued' = issued
          /\ refreshTokens' = refreshTokens]_vars

\* a Google sign-in on a linked account has returned a pair after a refreshToken
\* did: each pair has its one row, owned by the account
C29_Witness ==
  /\ resp.op = "googleAuthCallback"
  /\ resp.tokens # NULL
  /\ Cardinality(issued) = 2
  /\ \A p \in issued :
       Cardinality({ x \in refreshTokens :
                       x.token = p.refreshToken /\ x.userId = resp.user }) = 1
  /\ Cardinality(refreshTokens) = 2

\* the raw reset token r was mailed to an address to which a reset token minted
\* later was mailed as well
Superseded(r) ==
  \E m1 \in outbox, m2 \in outbox :
    /\ m1.template = "password-reset" /\ m2.template = "password-reset"
    /\ m1.token = r
    /\ m2.to = m1.to
    /\ getTime(m2.token) > getTime(m1.token)

\* C30: a second forgotPassword for an account replaces the stored reset-token
\* hash and its expiry; from then on resetPassword with the earlier raw token is
\* answered 400 and changes nothing, and a resetPassword that succeeds was given
\* the raw token minted last for the account.
C30_SecondForgotReplaces ==
  [][/\ \A e \in Emails :
          LET id == findByEmail(users, e)
          IN (resp'.op = "forgotPassword" /\ id # 0 /\ ForgotPassword(e)) =>
               /\ users'[id].resetPasswordToken = sha256(Some(nextRaw))
               /\ users'[id].resetPasswordToken # users[id].resetPasswordToken
               /\ users'[id].resetPasswordExpire = Some(now + 15 * 60 * 1000)
     /\ \A r \in Minted, p \in Passwords :
          (resp'.op = "resetPassword" /\ ResetPassword(r, p)) =>
            IF Superseded(r)
            THEN /\ resp'.status = 400
                 /\ users' = users
                 /\ refreshTokens' = refreshTokens
            ELSE resp'.status = 200 =>
                   \E m \in outbox : /\ m.template = "password-reset"
                                     /\ m.token = r
                                     /\ m.to = users[resp'.user].email]_vars

\* the first of two reset tokens has been presented within its 15 minutes and
\* refused, while the second is the one pending
C30_Witness ==
  /\ resp.op = "resetPassword"
  /\ resp.status = 400
  /\ Superseded(resp.arg)
  /\ now = 0
  /\ \E u \in 1..Len(users), m \in outbox :
       /\ m.template = "password-reset"
       /\ ~Superseded(m.token)
       /\ users[u].resetPasswordToken = sha256(m.token)
       /\ getTime(users[u].resetPasswordExpire) > now

\* C31: of two concurrent requests presenting the same raw token, at most one
\* verifyEmail succeeds (one token pair is issued for the token) and at most one
\* resetPassword succeeds (one request sets the password): a request never
\* succeeds with a token that an earlier request has already succeeded with.
C31_OneWinnerPerToken ==
  [][\A s \in Slots :
       /\ (VerifyIssue(s) /\ resp'.status = 200) =>
            [ op |-> "verifyEmail", token |-> inflight[s].token ] \notin consumed
       /\ (ResetCommit(s) /\ resp'.status = 200) =>
            [ op |-> "resetPassword", token |-> inflight[s].token ] \notin consumed]_vars

\* C32: under any interleaving of wrong-password logins on one account, every
\* failed attempt adds one to failedLoginAttempts as it stands when the attempt
\* is recorded (so n failed attempts raise the counter by n, and three of them
\* lock the account).
C32_EveryFailureCounted ==
  [][\A s \in Slots :
       LET r == inflight[s]
       IN (/\ r.pc = "check"
           /\ r.user # NULL
           /\ validateLoginAttempt(r.user, now) = NULL
           /\ ~bcryptCompare(r.password, r.user.password)
           /\ LoginCheck(s)) =>
            users'[r.user.id].failedLoginAttempts =
              users[r.user.id].failedLoginAttempts + 1]_vars

\* C33: once a resetPassword or updatePassword has committed a new password for an
\* account, a login that verified the password stored before it creates no
\* RefreshToken row and returns no token pair.
C33_NoPairForOldPassword ==
  [][\A s \in Slots :
       LET r == inflight[s]
       IN (/\ r.pc = "issue"
           /\ users[r.user.id].password # r.user.password
           /\ LoginIssue(s)) =>
            /\ refreshTokens' = refreshTokens
            /\ issued' = issued
            /\ resp'.tokens = NULL]_vars

\* C34: a login that fails after its password was verified as correct (the
\* account verified and not locked, then resetFailedAttempts or generateTokens
\* throwing) does not penalise the account: failedLoginAttempts is not raised and
\* accountLockedUntil is not set by it.
C34_ServerFailureNotPenalised ==
  [][\A i \in Emails, p \in Passwords :
       LET id == findByIdentifier(users, i, i)
       IN (/\ resp'.op = "login"
           /\ resp'.status # 200
           /\ id # 0
           /\ loginChecks(users[id], p, now) = NULL
           /\ Login(i, p)) =>
            /\ users'[id].failedLoginAttempts <= users[id].failedLoginAttempts
            /\ users'[id].accountLockedUntil \in { NULL, users[id].accountLockedUntil }]_vars

\* C35: whenever logout reports success for a refresh token, a live revocation
\* entry for the token's jti is in the key/value store after it; with the store
\* disconnected, logout does not report success.
C35_LogoutSuccessMeansRevoked ==
  [][\A t \in HeldTokens :
       (Logout(t) /\ resp'.status = 200) =>
         /\ redisOpen
         /\ \E e \in redis' : e.key = blacklistKey(t.jti) /\ now' < e.expireAt]_vars

\* C36: register is all-or-nothing: a register that ends with an error, a failure
\* of the message sender included, has created no account, so the same email and
\* username can be registered again.
C36_RegisterAllOrNothing ==
  [][\A e \in Emails, u \in Usernames, p \in Passwords :
       (/\ resp'.op = "register"
        /\ resp'.status # 201
        /\ Register(e, u, p)) =>
         /\ users' = users
         /\ findByIdentifier(users', e, u) = findByIdentifier(users, e, u)]_vars

\* C37: updatePassword changes only the account's password hash and its
\* RefreshToken rows: every other column of every account, a pending reset token
\* and its expiry included, is left as it was, and a resetPassword that presents
\* the pending token right after the authenticated change is accepted and sets
\* the password.
C37_UpdatePasswordFrame ==
  [][/\ resp'.op = "updatePassword" =>
          \A t \in HeldTokens, c \in Passwords, p \in Passwords :
            UpdatePassword(t, c, p) =>
              /\ Len(users') = Len(users)
              /\ \A u \in 1..Len(users) :
                   /\ users'[u] = [ users[u] EXCEPT !.password = users'[u].password ]
                   /\ u # t.userId => users'[u] = users[u]
              /\ refreshTokens' \subseteq refreshTokens
              /\ \A x \in refreshTokens \ refreshTokens' : x.userId = t.userId
              /\ outbox' = outbox
              /\ issued' = issued
              /\ redis' = redis
     /\ (resp.op = "updatePassword" /\ resp.status = 200 /\ resp'.op = "resetPassword") =>
          \A r \in ResetLinks, p \in Passwords :
            LET id == findByResetToken(users, sha256(r), now)
            IN (id = resp.user /\ ResetPassword(r, p)) =>
                 /\ resp'.status = 200
                 /\ users'[id].password = bcryptHash(p)
                 /\ users'[id].resetPasswordToken = NULL]_vars

\* updatePassword has just set the password to a new value while a reset token
\* mailed to the account is pending and unexpired
C37_Witness ==
  /\ resp.op = "updatePassword"
  /\ resp.status = 200
  /\ users[resp.user].password = bcryptHash("Other456!")
  /\ \E m \in outbox :
       /\ m.template = "password-reset"
       /\ findByResetToken(users, sha256(m.token), now) = resp.user

\* C38: resetPassword leaves failedLoginAttempts, accountLockedUntil and
\* isVerified of every account unchanged, and a login made right after a
\* successful reset of an account that is locked or unverified is rejected with
\* 403, with the new password as with any other.
C38_ResetKeepsLockout ==
  [][/\ resp'.op = "resetPassword" =>
          \A r \in ResetLinks, p \in Passwords :
            ResetPassword(r, p) =>
              /\ Len(users') = Len(users)
              /\ \A u \in 1..Len(users) :
                   /\ users'[u].failedLoginAttempts = users[u].failedLoginAttempts
                   /\ users'[u].accountLockedUntil = users[u].accountLockedUntil
                   /\ users'[u].isVerified = users[u].isVerified
     /\ (resp.op = "resetPassword" /\ resp.status = 200 /\ resp'.op = "login") =>
          \A i \in Emails, p \in Passwords :
            LET id == findByIdentifier(users, i, i)
            IN (/\ id = resp.user
                /\ (Locked(users[id], now) \/ ~users[id].isVerified)
                /\ Login(i, p)) =>
                 /\ resp'.status = 403
                 /\ resp'.tokens = NULL
                 /\ issued' = issued]_vars

\* resetPassword has just set the password of an account that is locked, and the
\* lock and the counter are still there
C38_Witness ==
  /\ resp.op = "resetPassword"
  /\ resp.status = 200
  /\ users[resp.user].password = bcryptHash("Other456!")
  /\ users[resp.user].failedLoginAttempts >= 3
  /\ Locked(users[resp.user], now)

\* C39: refreshToken neither reads nor writes the account: it leaves every User
\* row as it was, the pair it returns carries the userId and role claims of the
\* presented token, and a refresh with a valid, unrevoked token of an account
\* that is locked succeeds (token generation working) with failedLoginAttempts
\* and accountLockedUntil unchanged.
C39_RefreshIgnoresAccount ==
  [][resp'.op = "refreshToken" =>
       \A t \in HeldTokens :
         RefreshToken(t) =>
           /\ users' = users
           /\ resp'.status = 200 =>
                /\ getTime(resp'.tokens).accessToken.userId = t.userId
                /\ getTime(resp'.tokens).accessToken.role = t.role
                /\ getTime(resp'.tokens).refreshToken.userId = t.userId
                /\ getTime(resp'.tokens).refreshToken.role = t.role
           /\ (/\ jwtVerify(t, "JWT_REFRESH_SECRET", now)
               /\ ~(build = "redis" /\ cacheExists(blacklistKey(t.jti)))
               /\ ~generateTokensFails
               /\ t.userId \in 1..Len(users)
               /\ Locked(users[t.userId], now)) =>
                /\ resp'.status = 200
                /\ getTime(resp'.tokens) \in issued']_vars

\* a refresh has just returned a pair for an account that is locked after three
\* failed logins
C39_Witness ==
  /\ resp.op = "refreshToken"
  /\ resp.status = 200
  /\ resp.user \in 1..Len(users)
  /\ Locked(users[resp.user], now)
  /\ users[resp.user].failedLoginAttempts >= 3
  /\ getTime(resp.tokens).refreshToken.userId = resp.arg.userId

\* C40: the passing of a lock's expiry does not reset failedLoginAttempts: an
\* account with a lock, running or run out, has a counter of at least 3 and the
\* clock's advance changes no account; one further wrong password on a verified
\* account whose lock has run out adds one to the counter and locks the account
\* again at once; and the counter returns to 0 only in a successful login or an
\* email verification.
C40_ExpiredLockKeepsCounter ==
  [][/\ \A u \in 1..Len(users) :
          users[u].accountLockedUntil # NULL => users[u].failedLoginAttempts >= 3
     /\ now' # now => users' = users
     /\ resp'.op = "login" =>
          \A i \in Identifiers, p \in Passwords :
            LET id == findByIdentifier(users, i, i)
            IN (/\ id # 0
                /\ users[id].isVerified
                /\ users[id].accountLockedUntil # NULL
                /\ getTime(users[id].accountLockedUntil) <= now
                /\ ~bcryptCompare(p, users[id].password)
                /\ Login(i, p)) =>
                 /\ users'[id].failedLoginAttempts = users[id].failedLoginAttempts + 1
                 /\ Locked(users'[id], now')
     /\ \A u \in 1..Len(users) :
          (users[u].failedLoginAttempts > 0 /\ users'[u].failedLoginAttempts = 0) =>
            \/ (resp'.op = "login" /\ resp'.status = 200 /\ resp'.user = u)
            \/ (/\ resp'.op = "verifyEmail"
                /\ users[u].verificationToken = sha256(resp'.arg)
                /\ ~users[u].isVerified
                /\ users'[u].isVerified)]_vars

\* a wrong password after a 15-minute lock ran out: the login read a counter of 3
\* and a lock in the past, and the account is locked again with a counter of 4
C40_Witness ==
  /\ resp.op = "login"
  /\ resp.status = 401
  /\ resp.user # 0
  /\ resp.seen.isVerified
  /\ resp.seen.failedLoginAttempts = 3
  /\ resp.seen.accountLockedUntil # NULL
  /\ getTime(resp.seen.accountLockedUntil) <= now
  /\ users[resp.user].failedLoginAttempts = 4
  /\ Locked(users[resp.user], now)

====
